---- MODULE Spec2Model ----
(***************************************************************************)
(* Model of divrec's reconciliation engine (src/divrec/recon/reconcile.py) *)
(* and of the domain helpers it calls (src/divrec/domain/models.py,        *)
(* src/divrec/domain/mapping.py), of rounding (calc/rounding.py), of the   *)
(* entitlement calculation (calc/entitlements.py), of the two validators   *)
(* (validate/) and of the command line run (cli.py).                       *)
(*                                                                         *)
(* Specifications: Spec (one reconcile_run invocation), SpecPure (several  *)
(* invocations by one caller), SpecPerm (invocations on reordered rows     *)
(* and holdings), SpecPar (the per-bucket comparisons as concurrent        *)
(* steps), SpecRounding (round_half_up), SpecValidate                      *)
(* (validate_internal_holdings), SpecCrest (validate_crest_snapshot),      *)
(* SpecCli (one cmd_run) and SpecRuns (several cmd_run into one            *)
(* directory).                                                             *)
(*                                                                         *)
(* Decimal values (cash, rate, tolerance) are exact fixed-point numbers:   *)
(* the integer n stands for the Decimal n / 10000, so 100 is 0.01 (one     *)
(* penny), 40 is 0.004 and 1000 is 0.10.  Decimal("0.00") is 0.  Decimal   *)
(* addition, subtraction, abs and comparison are exact, hence the integer  *)
(* operations.  Decimal("NaN") is the value NaN, which is no amount; an   *)
(* ordering comparison with it raises decimal.InvalidOperation.            *)
(***************************************************************************)
EXTENDS Integers, Sequences, FiniteSets, TLC

\* ------------------------------------------------------------------------
\* Bounds of the model
\* ------------------------------------------------------------------------
MaxHoldings == 2
MaxLines == 2
MaxCrestRows == 4

\* ------------------------------------------------------------------------
\* Program constants
\* ------------------------------------------------------------------------
HOUSE_CLIENT == "55555555"
HOUSE_PRODUCT_BY_BUCKET == [b \in {"ISA", "SIPP", "GIA"} |->
                              IF b = "ISA" THEN 22 ELSE IF b = "SIPP" THEN 70 ELSE 97]
DefaultTolerance == 100

\* the tuple the comparison loop iterates over, and the key set line 41 expects
Buckets == <<"ISA", "SIPP", "GIA">>
expected == {"ISA", "SIPP", "GIA"}

\* InternalHolding.crest_bucket = None
NoBucket == "None"

\* run identity, passed through unchanged into every record built
RunId == "RUN1"
Isin == "GB00TEST0001"
RecordDate == "2026-01-01"
PayDate == "2026-01-15"

\* ------------------------------------------------------------------------
\* Pure helpers
\* ------------------------------------------------------------------------
Abs(n) == IF n < 0 THEN -n ELSE n

DigitStr(d) == <<"0", "1", "2", "3", "4", "5", "6", "7", "8", "9">>[d + 1]

RECURSIVE IntStr(_)
IntStr(n) == IF n < 10 THEN DigitStr(n) ELSE IntStr(n \div 10) \o DigitStr(n % 10)

\* Python's format spec 02d for a non-negative int: zero-padded to width 2
Fmt02d(n) == IF n < 10 THEN "0" \o DigitStr(n) ELSE IntStr(n)

\* domain/mapping.py: client number concatenated with the padded product code
mapping_make_account_number(client_number, product_code) ==
    client_number \o Fmt02d(product_code)

\* domain/models.py, the function reconcile.py imports: a dash in between
make_account_number(client_number, product_code) ==
    client_number \o "-" \o Fmt02d(product_code)

\* ------------------------------------------------------------------------
\* Records
\* ------------------------------------------------------------------------
InternalHolding(cn, pc, sh, cb) ==
    [isin |-> Isin, record_date |-> RecordDate, client_number |-> cn,
     product_code |-> pc, account_number |-> mapping_make_account_number(cn, pc),
     shares |-> sh, crest_bucket |-> cb]

CrestBucketSnapshot(cb, sh, dps, cash) ==
    [isin |-> Isin, record_date |-> RecordDate, pay_date |-> PayDate,
     crest_bucket |-> cb, shares |-> sh, dividend_per_share |-> dps,
     cash_credited |-> cash]

CreditLine(cn, pc, acct, cb, sh, dps, cash, lt) ==
    [run_id |-> RunId, isin |-> Isin, record_date |-> RecordDate,
     pay_date |-> PayDate, client_number |-> cn, product_code |-> pc,
     account_number |-> acct, crest_bucket |-> cb, shares |-> sh,
     dividend_per_share |-> dps, cash_credited |-> cash, line_type |-> lt]

BreakRow(cb, bt, details, cv, iv) ==
    [run_id |-> RunId, isin |-> Isin, crest_bucket |-> cb, break_type |-> bt,
     details |-> details, crest_value |-> cv, internal_value |-> iv]

\* ------------------------------------------------------------------------
\* Inputs of reconcile_run
\* ------------------------------------------------------------------------
\* holdings that carry a stored bucket, as reconcile_run's callers build them
HoldingPool ==
    { InternalHolding("11111111", 22, 1, "ISA"),
      InternalHolding("22222222", 70, 1, "SIPP") }

\* a holding as the CSV reader builds it: crest_bucket left at its default None
UnbucketedHolding == InternalHolding("33333333", 24, 1, NoBucket)

\* one share at 0.0100 or at 0.0110 a share is 0.01 after rounding to pennies
LinePool ==
    { CreditLine("11111111", 22, "1111111122", "ISA", 1, 100, 100, "CLIENT"),
      CreditLine("22222222", 70, "2222222270", "SIPP", 1, 110, 100, "CLIENT"),
      CreditLine(HOUSE_CLIENT, 22, "5555555522", "ISA", 0, 100, 200, "HOUSE_ROUNDING") }

\* a snapshot at 0.0110 a share
CrestRowPool ==
    { CrestBucketSnapshot("ISA", 1, 110, 100),
      CrestBucketSnapshot("SIPP", 1, 110, 100),
      CrestBucketSnapshot("GIA", 0, 110, 0) }

Tolerances == {0, DefaultTolerance}

SeqsUpTo(S, n) == UNION { [1..k -> S] : k \in 0..n }

HoldingsInputs == SeqsUpTo(HoldingPool, MaxHoldings) \cup { <<UnbucketedHolding>> }

\* ------------------------------------------------------------------------
\* State: the arguments, locals and results of one reconcile_run invocation
\* ------------------------------------------------------------------------
VARIABLES
    internal_holdings,   \* argument: list[InternalHolding]
    crest_rows,          \* argument: list[CrestBucketSnapshot]
    client_lines,        \* argument: list[CreditLine]
    residual_tolerance,  \* argument: Decimal
    pc,                  \* "start" | "compare" | "decide" | "settle" | "done" | "raised"
    crest_by_bucket,     \* local dict, line 40
    internal_shares,     \* local dict, line 45
    internal_cash_pre,   \* local dict, line 46
    bucket_results,      \* local list, line 48
    breaks,              \* local list, line 49
    fail_reasons,        \* local list, line 50
    recon,               \* the RunReconResult built at line 111
    final_credit_lines,  \* second component of the returned tuple
    ret_breaks,          \* third component of the returned tuple
    raised               \* the exception that ended the call, "" if none

reconVars == <<internal_holdings, crest_rows, client_lines, residual_tolerance, pc,
               crest_by_bucket, internal_shares, internal_cash_pre, bucket_results,
               breaks, fail_reasons, recon, final_credit_lines, ret_breaks, raised>>

inputs == <<internal_holdings, crest_rows, client_lines, residual_tolerance>>

\* ------------------------------------------------------------------------
\* State of the caller across invocations of reconcile_run
\* ------------------------------------------------------------------------
VARIABLES
    calls,               \* number of invocations started so far
    given,               \* the argument values the caller passed to this invocation
    remembered           \* arguments and results of one earlier invocation, or NoCall

callerVars == <<calls, given, remembered>>

NoCall == [call |-> 0]

\* ------------------------------------------------------------------------
\* State of one round_half_up evaluation and of rounding its result again
\* ------------------------------------------------------------------------
VARIABLES
    value,               \* argument: Decimal
    places,              \* argument: int
    rounded,             \* round_half_up(value, places)
    rounded_again,       \* round_half_up(rounded, places)
    round_pc             \* "idle" | "given" | "rounded" | "rerounded"

roundVars == <<value, places, rounded, rounded_again, round_pc>>

\* ------------------------------------------------------------------------
\* State of one cmd_run invocation (cli.py)
\* ------------------------------------------------------------------------
VARIABLES
    holdings,            \* local: what read_internal_holdings_csv returned
    dividend_per_share,  \* argument --dividend-per-share
    cli_pc,              \* "idle" | "read" | "validated" | "reconciling" | "exited"
    error,               \* the exception caught by cmd_run, "" if none
    credit_out,          \* the rows written to credit_file.csv
    exit_code,           \* the value cmd_run returns, -1 before it returns
    run_files,           \* the names of the files in run_outdir
    written,             \* the files this invocation has written so far
    found,               \* the files earlier invocations left in run_outdir
    status,              \* "status" of run_summary.json, "" while there is none
    runs                 \* invocations started so far with this run_outdir

\* the run output directory and what this invocation did to it
cliFiles == <<run_files, written, found, status, runs>>

cliVars == <<holdings, dividend_per_share, cli_pc, error, credit_out, exit_code,
             cliFiles>>

\* ------------------------------------------------------------------------
\* The per-bucket comparisons of reconcile_run evaluated as separate steps
\* ------------------------------------------------------------------------
VARIABLES
    evaluated            \* the buckets' results, in the order the steps completed

parVars == <<evaluated>>

\* everything reconcile_run neither reads nor writes
outside == <<callerVars, roundVars, cliVars, parVars>>

\* no RunReconResult built yet
NoRecon == [run_id |-> RunId, isin |-> Isin, record_date |-> RecordDate,
            pay_date |-> PayDate, bucket_results |-> <<>>, pass_run |-> FALSE,
            fail_reasons |-> <<>>]

\* the values of the variables of a part of the program that is not running
ReconIdle ==
    /\ internal_holdings = <<>>
    /\ crest_rows = <<>>
    /\ client_lines = <<>>
    /\ residual_tolerance = 0
    /\ pc = "idle"
    /\ crest_by_bucket = <<>>
    /\ internal_shares = <<>>
    /\ internal_cash_pre = <<>>
    /\ bucket_results = <<>>
    /\ breaks = <<>>
    /\ fail_reasons = <<>>
    /\ recon = NoRecon
    /\ final_credit_lines = <<>>
    /\ ret_breaks = <<>>
    /\ raised = ""

CallerIdle == calls = 0 /\ given = <<>> /\ remembered = NoCall

RoundingIdle ==
    value = 0 /\ places = 0 /\ rounded = 0 /\ rounded_again = 0 /\ round_pc = "idle"

\* no invocation yet into an empty run_outdir
CliFilesIdle ==
    run_files = {} /\ written = {} /\ found = {} /\ status = "" /\ runs = 0

CliIdle ==
    /\ holdings = <<>>
    /\ dividend_per_share = 0
    /\ cli_pc = "idle"
    /\ error = ""
    /\ credit_out = <<>>
    /\ exit_code = -1
    /\ CliFilesIdle

ParIdle == evaluated = <<>>

vars == <<reconVars, outside>>

\* ------------------------------------------------------------------------
\* Functions of domain/models.py used by reconcile_run
\* ------------------------------------------------------------------------
\* {r.crest_bucket: r for r in crest_rows}: a later row replaces an earlier one
CrestByBucket(rows) ==
    [b \in {rows[i].crest_bucket : i \in DOMAIN rows} |->
        rows[CHOOSE i \in DOMAIN rows :
                /\ rows[i].crest_bucket = b
                /\ \A j \in DOMAIN rows : rows[j].crest_bucket = b => j <= i]]

RECURSIVE SumSharesStored(_, _)
SumSharesStored(hs, b) ==
    IF Len(hs) = 0 THEN 0
    ELSE (IF Head(hs).crest_bucket = b THEN Head(hs).shares ELSE 0)
         + SumSharesStored(Tail(hs), b)

\* totals[h.crest_bucket] += ... fails on a key that is none of the three
SharesKeyError(hs) == \E i \in DOMAIN hs : hs[i].crest_bucket \notin expected

aggregate_internal_shares_by_bucket(hs) == [b \in expected |-> SumSharesStored(hs, b)]

RECURSIVE SumCash(_, _)
SumCash(lines, b) ==
    IF Len(lines) = 0 THEN 0
    ELSE (IF Head(lines).crest_bucket = b THEN Head(lines).cash_credited ELSE 0)
         + SumCash(Tail(lines), b)

aggregate_cash_by_bucket(lines) == [b \in expected |-> SumCash(lines, b)]

\* ------------------------------------------------------------------------
\* Init: one invocation, arguments drawn from the bounded input sets
\* ------------------------------------------------------------------------
Init ==
    /\ internal_holdings \in HoldingsInputs
    /\ crest_rows \in SeqsUpTo(CrestRowPool, MaxCrestRows)
    /\ client_lines \in SeqsUpTo(LinePool, MaxLines)
    /\ residual_tolerance \in Tolerances
    /\ pc = "start"
    /\ crest_by_bucket = <<>>
    /\ internal_shares = <<>>
    /\ internal_cash_pre = <<>>
    /\ bucket_results = <<>>
    /\ breaks = <<>>
    /\ fail_reasons = <<>>
    /\ recon = NoRecon
    /\ final_credit_lines = <<>>
    /\ ret_breaks = <<>>
    /\ raised = ""
    /\ calls = 1
    /\ given = inputs
    /\ remembered = NoCall
    /\ RoundingIdle
    /\ CliIdle
    /\ ParIdle

\* ------------------------------------------------------------------------
\* reconcile_run, lines 40-50: index the rows, check the key set, aggregate
\* ------------------------------------------------------------------------
RaiseMissingBucket ==
    /\ pc = "start"
    /\ DOMAIN CrestByBucket(crest_rows) # expected
    /\ pc' = "raised"
    /\ raised' = "MISSING_BUCKET"
    /\ UNCHANGED <<inputs, crest_by_bucket, internal_shares, internal_cash_pre,
                   bucket_results, breaks, fail_reasons, recon,
                   final_credit_lines, ret_breaks>>
    /\ UNCHANGED outside

RaiseKeyError ==
    /\ pc = "start"
    /\ DOMAIN CrestByBucket(crest_rows) = expected
    /\ SharesKeyError(internal_holdings)
    /\ pc' = "raised"
    /\ raised' = "KeyError"
    /\ crest_by_bucket' = CrestByBucket(crest_rows)
    /\ UNCHANGED <<inputs, internal_shares, internal_cash_pre,
                   bucket_results, breaks, fail_reasons, recon,
                   final_credit_lines, ret_breaks>>
    /\ UNCHANGED outside

Aggregate ==
    /\ pc = "start"
    /\ DOMAIN CrestByBucket(crest_rows) = expected
    /\ ~SharesKeyError(internal_holdings)
    /\ crest_by_bucket' = CrestByBucket(crest_rows)
    /\ internal_shares' = aggregate_internal_shares_by_bucket(internal_holdings)
    /\ internal_cash_pre' = aggregate_cash_by_bucket(client_lines)
    /\ bucket_results' = <<>>
    /\ breaks' = <<>>
    /\ fail_reasons' = <<>>
    /\ pc' = "compare"
    /\ UNCHANGED <<inputs, recon, final_credit_lines, ret_breaks, raised>>
    /\ UNCHANGED outside

\* ------------------------------------------------------------------------
\* reconcile_run, lines 52-108: one iteration of the per-bucket loop
\* ------------------------------------------------------------------------
\* line 62 with a strict comparison
EligibleStrict(residual, tolerance) == Abs(residual) < tolerance

\* line 62 holding for every residual
EligibleAlways(residual, tolerance) == TRUE

\* line 62
Eligible(residual, tolerance) == Abs(residual) <= tolerance

\* line 65 without the cash condition
PassBucketSharesOnly(int_shares, crest_shares, eligible) == int_shares = crest_shares

\* line 65
PassBucket(int_shares, crest_shares, eligible) == (int_shares = crest_shares) /\ eligible

\* lines 53-80
BucketReconResult(bucket, crest_row, int_shares, int_cash_pre, tolerance) ==
    LET crest_shares == crest_row.shares
        crest_cash == crest_row.cash_credited
        shares_diff == int_shares - crest_shares
        residual == crest_cash - int_cash_pre
        eligible == Eligible(residual, tolerance)
        int_cash_post == int_cash_pre + (IF eligible THEN residual ELSE 0)
        cash_diff_post == crest_cash - int_cash_post
    IN  [crest_bucket |-> bucket,
         crest_shares |-> crest_shares,
         internal_shares |-> int_shares,
         shares_diff |-> shares_diff,
         crest_cash |-> crest_cash,
         internal_cash_pre_residual |-> int_cash_pre,
         residual_to_house |-> residual,
         internal_cash_post_residual |-> int_cash_post,
         cash_diff_post_residual |-> cash_diff_post,
         pass_bucket |-> PassBucket(int_shares, crest_shares, eligible)]

\* lines 82-94: the break and tag appended when the share totals differ
SharesBreaks(br) ==
    IF br.internal_shares # br.crest_shares
    THEN << BreakRow(br.crest_bucket, "SHARES_MISMATCH",
                     <<"shares_diff", br.shares_diff>>,
                     br.crest_shares, br.internal_shares) >>
    ELSE <<>>

\* lines 96-108 as an elif of the shares check
ResidualBreaksUnlessSharesBreak(br, tolerance) ==
    IF br.internal_shares = br.crest_shares /\ Abs(br.residual_to_house) > tolerance
    THEN << BreakRow(br.crest_bucket, "RESIDUAL_EXCEEDS_TOLERANCE",
                     <<"residual", br.residual_to_house, "tolerance", tolerance>>,
                     br.crest_cash, br.internal_cash_pre_residual) >>
    ELSE <<>>

\* lines 96-108: the break and tag appended when the residual is not eligible
ResidualBreaks(br, tolerance) ==
    IF ~Eligible(br.residual_to_house, tolerance)
    THEN << BreakRow(br.crest_bucket, "RESIDUAL_EXCEEDS_TOLERANCE",
                     <<"residual", br.residual_to_house, "tolerance", tolerance>>,
                     br.crest_cash, br.internal_cash_pre_residual) >>
    ELSE <<>>

\* lines 94 and 108: the tag format
FailReason(break_type, bucket) == break_type \o ":" \o bucket

FailReasonsOf(brks) == [i \in DOMAIN brks |-> FailReason(brks[i].break_type, brks[i].crest_bucket)]

CompareBucket ==
    /\ pc = "compare"
    /\ Len(bucket_results) < Len(Buckets)
    /\ LET bucket == Buckets[Len(bucket_results) + 1]
           br == BucketReconResult(bucket, crest_by_bucket[bucket],
                                   internal_shares[bucket], internal_cash_pre[bucket],
                                   residual_tolerance)
           new == SharesBreaks(br) \o ResidualBreaks(br, residual_tolerance)
       IN  /\ bucket_results' = Append(bucket_results, br)
           /\ breaks' = breaks \o new
           /\ fail_reasons' = fail_reasons \o FailReasonsOf(new)
    /\ pc' = IF Len(bucket_results) + 1 = Len(Buckets) THEN "decide" ELSE "compare"
    /\ UNCHANGED <<inputs, crest_by_bucket, internal_shares, internal_cash_pre,
                   recon, final_credit_lines, ret_breaks, raised>>
    /\ UNCHANGED outside

\* ------------------------------------------------------------------------
\* reconcile_run, lines 110-122: the run decision, and the return of a failed run
\* ------------------------------------------------------------------------
\* line 110 with any() for all()
PassRunAny(results) == \E i \in DOMAIN results : results[i].pass_bucket

\* line 110
PassRun(results) == \A i \in DOMAIN results : results[i].pass_bucket

\* lines 111-119
RunReconResult(results, reasons) ==
    [run_id |-> RunId, isin |-> Isin, record_date |-> RecordDate,
     pay_date |-> PayDate, bucket_results |-> results,
     pass_run |-> PassRun(results), fail_reasons |-> reasons]

\* lines 121-122 returning the client postings of a failed run
FailedRunLinesKept(lines) == lines

\* lines 121-122: what a failed run returns as its posting list
FailedRunLines(lines) == <<>>

Decide ==
    /\ pc = "decide"
    /\ recon' = RunReconResult(bucket_results, fail_reasons)
    /\ IF ~recon'.pass_run
       THEN /\ final_credit_lines' = FailedRunLines(client_lines)
            /\ ret_breaks' = breaks
            /\ pc' = "done"
       ELSE /\ pc' = "settle"
            /\ UNCHANGED <<final_credit_lines, ret_breaks>>
    /\ UNCHANGED <<inputs, crest_by_bucket, internal_shares, internal_cash_pre,
                   bucket_results, breaks, fail_reasons, raised>>
    /\ UNCHANGED outside

\* ------------------------------------------------------------------------
\* reconcile_run, lines 124-147: settlement of a passed run
\* ------------------------------------------------------------------------
\* lines 128-143
HouseLine(br, by_bucket) ==
    LET product_code == HOUSE_PRODUCT_BY_BUCKET[br.crest_bucket]
    IN  CreditLine(HOUSE_CLIENT, product_code,
                   make_account_number(HOUSE_CLIENT, product_code),
                   br.crest_bucket, 0,
                   by_bucket[br.crest_bucket].dividend_per_share,
                   br.residual_to_house, "HOUSE_ROUNDING")

\* line 126 skipping every non-positive residual
SkipsHouseLineNonPositive(br) == br.residual_to_house <= 0

\* line 126 never skipping
SkipsHouseLineNever(br) == FALSE

\* line 126
SkipsHouseLine(br) == br.residual_to_house = 0

\* lines 124-144
RECURSIVE HouseLines(_, _)
HouseLines(results, by_bucket) ==
    IF Len(results) = 0 THEN <<>>
    ELSE (IF SkipsHouseLine(Head(results)) THEN <<>>
          ELSE <<HouseLine(Head(results), by_bucket)>>)
         \o HouseLines(Tail(results), by_bucket)

\* line 146 extending the caller's list in place instead of copying it
ClientLinesExtendedInPlace(lines, house_lines) == lines \o house_lines

\* line 146: list(client_lines) is a copy, the caller's list stays as it was
ClientLinesAfterSettle(lines, house_lines) == lines

\* line 146 with the house postings first
FinalCreditLinesHouseFirst(lines, house_lines) == house_lines \o lines

\* line 146
FinalCreditLines(lines, house_lines) == lines \o house_lines

Settle ==
    /\ pc = "settle"
    /\ LET house_lines == HouseLines(recon.bucket_results, crest_by_bucket)
       IN  /\ final_credit_lines' = FinalCreditLines(client_lines, house_lines)
           /\ client_lines' = ClientLinesAfterSettle(client_lines, house_lines)
    /\ ret_breaks' = <<>>
    /\ pc' = "done"
    /\ UNCHANGED <<internal_holdings, crest_rows, residual_tolerance,
                   crest_by_bucket, internal_shares, internal_cash_pre,
                   bucket_results, breaks, fail_reasons, recon, raised>>
    /\ UNCHANGED outside

Next ==
    \/ RaiseMissingBucket
    \/ RaiseKeyError
    \/ Aggregate
    \/ CompareBucket
    \/ Decide
    \/ Settle

Spec == Init /\ [][Next]_vars

\* ------------------------------------------------------------------------
\* Vocabulary of the properties
\* ------------------------------------------------------------------------
Returned == pc = "done"
PassedRun == Returned /\ recon.pass_run
FailedRun == Returned /\ ~recon.pass_run

\* the authoritative row of a bucket, as given in the input rows
AuthoritativeRow(b) == CrestByBucket(crest_rows)[b]

\* the postings of the returned set that follow the input postings
AppendedLines ==
    SubSeq(final_credit_lines, Len(client_lines) + 1, Len(final_credit_lines))

PositionsOf(lines, b, kind) ==
    { i \in DOMAIN lines : lines[i].crest_bucket = b /\ lines[i].line_type = kind }

RECURSIVE SumCashOfKind(_, _, _)
SumCashOfKind(lines, b, kind) ==
    IF Len(lines) = 0 THEN 0
    ELSE (IF Head(lines).crest_bucket = b /\ Head(lines).line_type = kind
          THEN Head(lines).cash_credited ELSE 0)
         + SumCashOfKind(Tail(lines), b, kind)

BucketIndex(b) == CHOOSE i \in DOMAIN Buckets : Buckets[i] = b

NonzeroResidualBuckets ==
    { b \in expected : \E i \in DOMAIN recon.bucket_results :
          /\ recon.bucket_results[i].crest_bucket = b
          /\ recon.bucket_results[i].residual_to_house # 0 }

ResultOf(b) == recon.bucket_results[BucketIndex(b)]

\* ------------------------------------------------------------------------
\* C1: a run that returns pass_run false returns an empty posting list,
\* however many of its buckets passed.
\* ------------------------------------------------------------------------
C1_FailedRunReturnsNoPostings == FailedRun => final_credit_lines = <<>>

\* a failed run with client postings in which a bucket passed on its own
C1_Witness ==
    /\ FailedRun
    /\ Len(client_lines) > 0
    /\ \E i \in DOMAIN recon.bucket_results : recon.bucket_results[i].pass_bucket
    /\ \E i \in DOMAIN recon.bucket_results : ~recon.bucket_results[i].pass_bucket

\* ------------------------------------------------------------------------
\* C2: on a passed run, per bucket, the cash of the CLIENT postings of the
\* returned set plus the cash of the bucket's HOUSE_ROUNDING postings equals
\* the bucket's authoritative cash exactly.
\* ------------------------------------------------------------------------
C2_PostingsTieOutToAuthoritativeCash ==
    PassedRun =>
        \A b \in expected :
            SumCashOfKind(final_credit_lines, b, "CLIENT")
              + SumCashOfKind(final_credit_lines, b, "HOUSE_ROUNDING")
            = AuthoritativeRow(b).cash_credited

\* a passed run with a bucket that has client cash, a negative residual and
\* its house posting, and another bucket with a positive residual
C2_Witness ==
    /\ PassedRun
    /\ \E b \in expected :
          /\ SumCashOfKind(final_credit_lines, b, "CLIENT") > 0
          /\ SumCashOfKind(final_credit_lines, b, "HOUSE_ROUNDING") < 0
    /\ \E b \in expected :
          SumCashOfKind(final_credit_lines, b, "HOUSE_ROUNDING") > 0

\* ------------------------------------------------------------------------
\* C3: a bucket outcome has pass_bucket true iff its internal shares equal
\* the authoritative shares and the authoritative cash differs from the
\* internal pre-residual cash by at most the tolerance, bounds included.
\* ------------------------------------------------------------------------
C3_PassBucketIffSharesMatchAndWithinTolerance ==
    \A i \in DOMAIN bucket_results :
        LET br == bucket_results[i]
            auth == AuthoritativeRow(Buckets[i])
            diff == auth.cash_credited - br.internal_cash_pre_residual
        IN  br.pass_bucket <=>
              /\ br.internal_shares = auth.shares
              /\ -residual_tolerance <= diff
              /\ diff <= residual_tolerance

\* one run in which a bucket passes with a residual equal to a positive
\* tolerance and another fails on its shares alone
C3_Witness ==
    /\ residual_tolerance > 0
    /\ \E i \in DOMAIN bucket_results :
          /\ bucket_results[i].pass_bucket
          /\ bucket_results[i].residual_to_house = residual_tolerance
    /\ \E i \in DOMAIN bucket_results :
          /\ ~bucket_results[i].pass_bucket
          /\ bucket_results[i].shares_diff # 0
          /\ Abs(bucket_results[i].residual_to_house) <= residual_tolerance

\* further cases of C3: a pass at the negative bound, a failure on cash alone
C3_CaseNegativeBound ==
    /\ residual_tolerance > 0
    /\ \E i \in DOMAIN bucket_results :
          /\ bucket_results[i].pass_bucket
          /\ bucket_results[i].residual_to_house = -residual_tolerance

C3_CaseCashAlone ==
    \E i \in DOMAIN bucket_results :
        /\ ~bucket_results[i].pass_bucket
        /\ bucket_results[i].shares_diff = 0

\* ------------------------------------------------------------------------
\* C4: pass_run of the RunOutcome is true iff the outcomes of ISA, SIPP and
\* GIA all have pass_bucket true.
\* ------------------------------------------------------------------------
C4_PassRunIffAllThreeBucketsPass ==
    pc \in {"settle", "done"} =>
        /\ [i \in DOMAIN recon.bucket_results |-> recon.bucket_results[i].crest_bucket]
             = Buckets
        /\ recon.pass_run <=>
             /\ ResultOf("ISA").pass_bucket
             /\ ResultOf("SIPP").pass_bucket
             /\ ResultOf("GIA").pass_bucket

\* a failed run in which exactly one bucket failed
C4_Witness ==
    /\ FailedRun
    /\ Cardinality({ b \in expected : ResultOf(b).pass_bucket }) = 2

C5_CaseNoResidual == PassedRun /\ NonzeroResidualBuckets = {} /\ Len(client_lines) > 0

\* ------------------------------------------------------------------------
\* C6: every HOUSE_ROUNDING posting that reconcile_run synthesizes has
\* shares 0 and the rate the run's CLIENT postings carry.
\* ------------------------------------------------------------------------
C6_HouseLineCarriesDeclaredRate ==
    PassedRun =>
        \A i \in DOMAIN AppendedLines :
            /\ AppendedLines[i].shares = 0
            /\ \A j \in DOMAIN client_lines :
                  client_lines[j].line_type = "CLIENT" =>
                      AppendedLines[i].dividend_per_share
                        = client_lines[j].dividend_per_share

\* ------------------------------------------------------------------------
\* C7: every HOUSE_ROUNDING posting that reconcile_run synthesizes is for
\* the house client and the house product code of its bucket, and its
\* account number is the client number followed by the two-digit product
\* code, the format validate_internal_holdings enforces.
\* ------------------------------------------------------------------------
C7_HouseLineAccountIsMapperFormat ==
    PassedRun =>
        \A i \in DOMAIN AppendedLines :
            LET ln == AppendedLines[i]
            IN  /\ ln.client_number = "55555555"
                /\ ln.product_code = (CASE ln.crest_bucket = "ISA" -> 22
                                        [] ln.crest_bucket = "SIPP" -> 70
                                        [] ln.crest_bucket = "GIA" -> 97)
                /\ ln.account_number
                     = mapping_make_account_number(ln.client_number, ln.product_code)

\* ------------------------------------------------------------------------
\* C8: on a passed run the returned posting set is the input postings,
\* unchanged and in input order, followed by HOUSE_ROUNDING postings in the
\* bucket order ISA, SIPP, GIA.
\* ------------------------------------------------------------------------
C8_ClientLinesThenHouseLinesInBucketOrder ==
    PassedRun =>
        /\ Len(final_credit_lines) >= Len(client_lines)
        /\ SubSeq(final_credit_lines, 1, Len(client_lines)) = client_lines
        /\ \A i \in DOMAIN AppendedLines : AppendedLines[i].line_type = "HOUSE_ROUNDING"
        /\ \A i, j \in DOMAIN AppendedLines :
              i < j => BucketIndex(AppendedLines[i].crest_bucket)
                         < BucketIndex(AppendedLines[j].crest_bucket)

\* a passed run with two input postings and two house postings
C8_Witness ==
    /\ PassedRun
    /\ Len(client_lines) = 2
    /\ Len(final_credit_lines) = 4

\* a passed run whose two input postings differ, with a house posting
C8_CaseDistinctInputLines ==
    /\ PassedRun
    /\ Len(client_lines) = 2
    /\ client_lines[1] # client_lines[2]
    /\ Len(final_credit_lines) = 3

\* ------------------------------------------------------------------------
\* C9: per bucket, a SHARES_MISMATCH break is emitted iff the share totals
\* differ and a RESIDUAL_EXCEEDS_TOLERANCE break iff the bucket is not
\* eligible, whatever happened in the other buckets; fail_reasons holds one
\* 'TYPE:bucket' tag per break, in the same order.
\* ------------------------------------------------------------------------
BreaksOf(brks, b, break_type) ==
    { k \in DOMAIN brks : brks[k].crest_bucket = b /\ brks[k].break_type = break_type }

C9_BreaksEnumeratedPerBucket ==
    pc \in {"decide", "settle", "done"} =>
        /\ Len(bucket_results) = 3
        /\ \A b \in expected :
              LET br == bucket_results[BucketIndex(b)]
                  auth == AuthoritativeRow(b)
              IN  /\ Cardinality(BreaksOf(breaks, b, "SHARES_MISMATCH"))
                       = IF br.internal_shares # auth.shares THEN 1 ELSE 0
                  /\ Cardinality(BreaksOf(breaks, b, "RESIDUAL_EXCEEDS_TOLERANCE"))
                       = IF Abs(auth.cash_credited - br.internal_cash_pre_residual)
                               > residual_tolerance THEN 1 ELSE 0
        /\ \A k \in DOMAIN breaks :
              /\ breaks[k].crest_bucket \in expected
              /\ breaks[k].break_type \in {"SHARES_MISMATCH", "RESIDUAL_EXCEEDS_TOLERANCE"}
        /\ Len(fail_reasons) = Len(breaks)
        /\ \A k \in DOMAIN breaks :
              fail_reasons[k] = breaks[k].break_type \o ":" \o breaks[k].crest_bucket
        /\ Returned => /\ recon.fail_reasons = fail_reasons
                       /\ (~recon.pass_run => ret_breaks = breaks)

\* a returned run in which the first bucket emitted both breaks and a later
\* bucket emitted a break as well
C9_Witness ==
    /\ Returned
    /\ BreaksOf(ret_breaks, "ISA", "SHARES_MISMATCH") # {}
    /\ BreaksOf(ret_breaks, "ISA", "RESIDUAL_EXCEEDS_TOLERANCE") # {}
    /\ BreaksOf(ret_breaks, "SIPP", "SHARES_MISMATCH") # {}
    /\ recon.fail_reasons[1] = "SHARES_MISMATCH:ISA"
    /\ recon.fail_reasons[2] = "RESIDUAL_EXCEEDS_TOLERANCE:ISA"

\* ------------------------------------------------------------------------
\* C10: pass_run is true iff fail_reasons is empty iff the returned break
\* list is empty; a failed run returns breaks and no postings, a passed run
\* returns no breaks.
\* ------------------------------------------------------------------------
C10_SettleAndReportAreExclusive ==
    Returned =>
        /\ recon.pass_run <=> (recon.fail_reasons = <<>>)
        /\ recon.pass_run <=> (ret_breaks = <<>>)
        /\ ~recon.pass_run => (ret_breaks # <<>> /\ final_credit_lines = <<>>)
        /\ recon.pass_run => ret_breaks = <<>>

\* a passed run that returns postings, house postings among them
C10_Witness ==
    /\ PassedRun
    /\ Len(final_credit_lines) > Len(client_lines)
    /\ Len(client_lines) > 0
    /\ ret_breaks = <<>>

\* ------------------------------------------------------------------------
\* C11: whenever the authoritative rows are not exactly one row per bucket
\* (a bucket absent, or more than one row for a bucket), reconcile_run ends
\* with MISSING_BUCKET, with no bucket compared and no RunOutcome, postings
\* or breaks produced.
\* ------------------------------------------------------------------------
RowsOfBucket(rows, b) == { i \in DOMAIN rows : rows[i].crest_bucket = b }

ExactlyOneRowPerBucket(rows) ==
    /\ \A b \in expected : Cardinality(RowsOfBucket(rows, b)) = 1
    /\ \A i \in DOMAIN rows : rows[i].crest_bucket \in expected

C11_NotOneRowPerBucketRaisesMissingBucket ==
    (pc # "start" /\ ~ExactlyOneRowPerBucket(crest_rows)) =>
        /\ pc = "raised"
        /\ raised = "MISSING_BUCKET"
        /\ bucket_results = <<>>
        /\ recon = NoRecon
        /\ final_credit_lines = <<>>
        /\ ret_breaks = <<>>

\* the part of C11 about an absent bucket: the call ends with MISSING_BUCKET
\* before anything is aggregated or compared
C11_CaseAbsentBucketRaises ==
    (pc # "start" /\ \E b \in expected : RowsOfBucket(crest_rows, b) = {}) =>
        /\ pc = "raised"
        /\ raised = "MISSING_BUCKET"
        /\ bucket_results = <<>>
        /\ internal_shares = <<>>
        /\ recon = NoRecon
        /\ final_credit_lines = <<>>
        /\ ret_breaks = <<>>

\* a run that passed on rows holding two rows for one bucket
C11_CaseDuplicateRowPasses ==
    /\ PassedRun
    /\ \E b \in expected : Cardinality(RowsOfBucket(crest_rows, b)) = 2

\* ------------------------------------------------------------------------
\* C12: the internal pre-residual cash of a bucket is the sum of the cash
\* of the CLIENT postings of that bucket only: a HOUSE_ROUNDING posting of
\* the input list does not contribute, and a bucket without CLIENT postings
\* totals 0 with its key present.
\* ------------------------------------------------------------------------
C12_InternalCashSumsClientPostingsOnly ==
    pc \in {"compare", "decide", "settle", "done"} =>
        /\ DOMAIN internal_cash_pre = expected
        /\ \A b \in expected :
              internal_cash_pre[b] = SumCashOfKind(client_lines, b, "CLIENT")

\* the part of C12 about the keys: all three are present, and a bucket
\* without any posting totals 0
C12_CaseAllKeysPresent ==
    pc \in {"compare", "decide", "settle", "done"} =>
        /\ DOMAIN internal_cash_pre = expected
        /\ \A b \in expected :
              (\A i \in DOMAIN client_lines : client_lines[i].crest_bucket # b)
                  => internal_cash_pre[b] = 0

\* a bucket with a CLIENT posting and a HOUSE_ROUNDING posting in the input
\* list, both counted in its total
C12_CaseHousePostingCounted ==
    /\ pc = "compare"
    /\ \E b \in expected :
          /\ SumCashOfKind(client_lines, b, "CLIENT") > 0
          /\ SumCashOfKind(client_lines, b, "HOUSE_ROUNDING") > 0
          /\ internal_cash_pre[b] = SumCashOfKind(client_lines, b, "CLIENT")
                                      + SumCashOfKind(client_lines, b, "HOUSE_ROUNDING")

\* ------------------------------------------------------------------------
\* domain/mapping.py and calc/aggregation.py: the bucket derived from the
\* product code
\* ------------------------------------------------------------------------
ALLOWED_PRODUCT_CODES == {22, 24, 25, 70, 71, 97}

PRODUCT_TO_BUCKET == [p \in ALLOWED_PRODUCT_CODES |->
                        IF p \in {22, 24, 25} THEN "ISA"
                        ELSE IF p \in {70, 71} THEN "SIPP" ELSE "GIA"]

\* the ValueError of an unknown product code is the value "UNKNOWN_PRODUCT_CODE"
bucket_for_product(product_code) ==
    IF product_code \in DOMAIN PRODUCT_TO_BUCKET
    THEN PRODUCT_TO_BUCKET[product_code]
    ELSE "UNKNOWN_PRODUCT_CODE"

RECURSIVE SumSharesDerived(_, _)
SumSharesDerived(hs, b) ==
    IF Len(hs) = 0 THEN 0
    ELSE (IF bucket_for_product(Head(hs).product_code) = b THEN Head(hs).shares ELSE 0)
         + SumSharesDerived(Tail(hs), b)

\* calc/aggregation.py: the aggregator that derives the bucket
calc_aggregate_internal_shares_by_bucket(hs) ==
    [b \in expected |-> SumSharesDerived(hs, b)]

\* ------------------------------------------------------------------------
\* C13: the internal shares total reconcile_run compares for a bucket is
\* the sum of the shares of the holdings whose product code maps to that
\* bucket, 0 when there is none, whatever crest_bucket the holdings store,
\* an absent one included.
\* ------------------------------------------------------------------------
C13_InternalSharesUseDerivedBucket ==
    (pc # "start" /\ raised # "MISSING_BUCKET") =>
        /\ DOMAIN internal_shares = expected
        /\ internal_shares = calc_aggregate_internal_shares_by_bucket(internal_holdings)

\* what holds instead: the total is taken over the stored crest_bucket, and
\* the call ends in a KeyError when a holding stores none of the three
C13_CaseStoredBucketUsed ==
    (pc # "start" /\ raised # "MISSING_BUCKET") =>
        IF \E i \in DOMAIN internal_holdings :
               internal_holdings[i].crest_bucket \notin expected
        THEN pc = "raised" /\ raised = "KeyError" /\ internal_shares = <<>>
        ELSE \A b \in expected :
                 internal_shares[b] = SumSharesStored(internal_holdings, b)

\* a call on a holding of product code 24 without a stored bucket
C13_CaseUnbucketedHoldingRaises ==
    /\ raised = "KeyError"
    /\ \E i \in DOMAIN internal_holdings :
          /\ internal_holdings[i].crest_bucket = NoBucket
          /\ bucket_for_product(internal_holdings[i].product_code) = "ISA"

\* ------------------------------------------------------------------------
\* A caller that invokes reconcile_run several times, one invocation after
\* the other.  reconcile.py keeps no module state besides the constants of
\* lines 20-21, so an invocation starts from its arguments alone; the list
\* objects of the arguments belong to the caller and outlive the invocation.
\* ------------------------------------------------------------------------
MaxCalls == 3

PureHoldingsInputs ==
    { <<>>,
      <<InternalHolding("11111111", 22, 1, "ISA")>>,
      <<InternalHolding("11111111", 22, 1, "ISA"), InternalHolding("22222222", 70, 1, "SIPP")>>,
      <<UnbucketedHolding>> }

PureCrestInputs ==
    { <<CrestBucketSnapshot("ISA", 1, 110, 100), CrestBucketSnapshot("SIPP", 1, 110, 100),
        CrestBucketSnapshot("GIA", 0, 110, 0)>>,
      <<CrestBucketSnapshot("ISA", 1, 110, 100), CrestBucketSnapshot("SIPP", 1, 110, 100)>> }

PureInputs ==
    { <<h, r, l, t>> : h \in PureHoldingsInputs, r \in PureCrestInputs,
                       l \in SeqsUpTo(LinePool, 1), t \in Tolerances }

\* the returned tuple, or the exception
Outcome == [raised |-> raised, recon |-> recon,
            final_credit_lines |-> final_credit_lines, breaks |-> ret_breaks]

InitPure ==
    /\ \E first \in PureInputs :
          /\ internal_holdings = first[1]
          /\ crest_rows = first[2]
          /\ client_lines = first[3]
          /\ residual_tolerance = first[4]
    /\ pc = "start"
    /\ crest_by_bucket = <<>>
    /\ internal_shares = <<>>
    /\ internal_cash_pre = <<>>
    /\ bucket_results = <<>>
    /\ breaks = <<>>
    /\ fail_reasons = <<>>
    /\ recon = NoRecon
    /\ final_credit_lines = <<>>
    /\ ret_breaks = <<>>
    /\ raised = ""
    /\ calls = 1
    /\ given = inputs
    /\ remembered = NoCall
    /\ RoundingIdle
    /\ CliIdle
    /\ ParIdle

\* the caller calls again once the invocation has ended: either with the
\* very objects it passed before, or with other arguments; it may keep the
\* ended invocation's arguments and results for a later comparison
Reinvoke ==
    /\ pc \in {"done", "raised"}
    /\ calls < MaxCalls
    /\ \E again \in BOOLEAN, fresh \in PureInputs, keep \in BOOLEAN :
          /\ internal_holdings' = IF again THEN internal_holdings ELSE fresh[1]
          /\ crest_rows' = IF again THEN crest_rows ELSE fresh[2]
          /\ client_lines' = IF again THEN client_lines ELSE fresh[3]
          /\ residual_tolerance' = IF again THEN residual_tolerance ELSE fresh[4]
          /\ given' = IF again THEN given ELSE fresh
          /\ remembered' = IF keep THEN [call |-> calls, given |-> given, outcome |-> Outcome]
                           ELSE remembered
    /\ calls' = calls + 1
    /\ pc' = "start"
    /\ crest_by_bucket' = <<>>
    /\ internal_shares' = <<>>
    /\ internal_cash_pre' = <<>>
    /\ bucket_results' = <<>>
    /\ breaks' = <<>>
    /\ fail_reasons' = <<>>
    /\ recon' = NoRecon
    /\ final_credit_lines' = <<>>
    /\ ret_breaks' = <<>>
    /\ raised' = ""
    /\ UNCHANGED <<roundVars, cliVars, parVars>>

NextPure ==
    \/ RaiseMissingBucket
    \/ RaiseKeyError
    \/ Aggregate
    \/ CompareBucket
    \/ Decide
    \/ Settle
    \/ Reinvoke

SpecPure == InitPure /\ [][NextPure]_vars

\* ------------------------------------------------------------------------
\* C14: reconcile_run is pure.  An invocation leaves its holdings, rows and
\* client postings as the caller passed them, and an invocation that ends
\* on the arguments of an earlier one ends with the same RunOutcome,
\* postings and breaks (or the same exception), whatever ran in between.
\* ------------------------------------------------------------------------
C14_ReconcileRunIsPure ==
    /\ inputs = given
    /\ (pc \in {"done", "raised"} /\ remembered # NoCall /\ remembered.given = given)
           => remembered.outcome = Outcome

\* a third invocation that passed with house postings on the arguments the
\* caller remembered from the first
C14_Witness ==
    /\ calls = 3
    /\ remembered # NoCall
    /\ remembered.call = 1
    /\ remembered.given = given
    /\ PassedRun
    /\ Len(final_credit_lines) > Len(client_lines)
    /\ Len(client_lines) > 0

\* an invocation that raised, repeated on the same objects
C14_CaseRaisedTwice ==
    /\ calls = 2
    /\ remembered # NoCall
    /\ remembered.given = given
    /\ raised = "KeyError"
    /\ remembered.outcome.raised = "KeyError"

\* ------------------------------------------------------------------------
\* calc/rounding.py.  A Decimal is the integer number of its ten-thousandths
\* (Scale decimal places); quantize(10^-places, ROUND_HALF_UP) gives the
\* nearest multiple of the quantum, a tie going away from zero.  For more
\* places than Scale the quantum is finer than any value here and quantize
\* only pads zeros.
\* ------------------------------------------------------------------------
Scale == 4
MaxValue == 10200
MaxPlaces == 5

RECURSIVE Pow10(_)
Pow10(k) == IF k = 0 THEN 1 ELSE 10 * Pow10(k - 1)

\* line 20: the exponent 10^-places, in ten-thousandths
Quantum(p) == IF p >= Scale THEN 1 ELSE Pow10(Scale - p)

\* line 21 with ROUND_HALF_EVEN, the rounding of Decimal's default context
round_half_even(v, p) ==
    LET q == Quantum(p)
        a == Abs(v)
        lo == (a \div q) * q
        r == IF 2 * (a - lo) < q THEN lo
             ELSE IF 2 * (a - lo) > q THEN lo + q
             ELSE IF (lo \div q) % 2 = 0 THEN lo ELSE lo + q
    IN  IF v < 0 THEN -r ELSE r

\* line 21 always moving to the next multiple of the quantum
round_to_next(v, p) ==
    LET q == Quantum(p)
        r == ((Abs(v) \div q) + 1) * q
    IN  IF v < 0 THEN -r ELSE r

\* lines 20-21
round_half_up(v, p) ==
    LET q == Quantum(p)
        a == Abs(v)
        lo == (a \div q) * q
        r == IF 2 * (a - lo) >= q THEN lo + q ELSE lo
    IN  IF v < 0 THEN -r ELSE r

InitRounding ==
    /\ value \in (-MaxValue)..MaxValue
    /\ places \in 0..MaxPlaces
    /\ rounded = 0
    /\ rounded_again = 0
    /\ round_pc = "given"
    /\ ReconIdle
    /\ CallerIdle
    /\ CliIdle
    /\ ParIdle

Round ==
    /\ round_pc = "given"
    /\ rounded' = round_half_up(value, places)
    /\ round_pc' = "rounded"
    /\ UNCHANGED <<value, places, rounded_again>>
    /\ UNCHANGED <<reconVars, callerVars, cliVars, parVars>>

RoundAgain ==
    /\ round_pc = "rounded"
    /\ rounded_again' = round_half_up(rounded, places)
    /\ round_pc' = "rerounded"
    /\ UNCHANGED <<value, places, rounded>>
    /\ UNCHANGED <<reconVars, callerVars, cliVars, parVars>>

NextRounding ==
    \/ Round
    \/ RoundAgain

SpecRounding == InitRounding /\ [][NextRounding]_vars

\* ------------------------------------------------------------------------
\* C18: round_half_up(value, places) is the multiple of 10^-places nearest
\* to value; a value exactly halfway between two multiples goes to the one
\* farther from zero, so the sign is preserved.  At 2 places 0.005 gives
\* 0.01, 1.005 gives 1.01, 1.015 gives 1.02, -0.005 gives -0.01, 0.004 gives
\* 0.00 and 1.004 gives 1.00.
\* ------------------------------------------------------------------------
C18_RoundsToNearestTiesAwayFromZero ==
    round_pc \in {"rounded", "rerounded"} =>
        LET q == IF places = 0 THEN 10000
                 ELSE IF places = 1 THEN 1000
                 ELSE IF places = 2 THEN 100
                 ELSE IF places = 3 THEN 10
                 ELSE 1
        IN  /\ rounded % q = 0
            /\ 2 * Abs(rounded - value) <= q
            /\ 2 * Abs(rounded - value) = q => Abs(rounded) > Abs(value)
            /\ value > 0 => rounded >= 0
            /\ value < 0 => rounded <= 0
            /\ (places = 2 /\ value = 50) => rounded = 100
            /\ (places = 2 /\ value = 10050) => rounded = 10100
            /\ (places = 2 /\ value = 10150) => rounded = 10200
            /\ (places = 2 /\ value = -50) => rounded = -100
            /\ (places = 2 /\ value = 40) => rounded = 0
            /\ (places = 2 /\ value = 10040) => rounded = 10000

\* 1.005 rounded to 2 places, a tie above an even hundredth
C18_Witness ==
    /\ round_pc = "rounded"
    /\ places = 2
    /\ value = 10050
    /\ rounded = 10100

\* a negative tie, rounded away from zero
C18_CaseNegativeTie ==
    /\ round_pc = "rounded"
    /\ places = 2
    /\ value = -50
    /\ rounded = -100

\* ------------------------------------------------------------------------
\* C19: round_half_up is idempotent: rounding a rounded value again to the
\* same number of places gives the rounded value.
\* ------------------------------------------------------------------------
C19_RoundHalfUpIsIdempotent ==
    round_pc = "rerounded" => rounded_again = rounded

\* a value that the first rounding changed, rounded a second time
C19_Witness ==
    /\ round_pc = "rerounded"
    /\ places = 2
    /\ value = 10150
    /\ rounded = 10200
    /\ rounded_again = 10200

\* ------------------------------------------------------------------------
\* validate/validate_internal.py.  The ValueError raised is the value of
\* the function, "" standing for a normal return.
\* ------------------------------------------------------------------------
VALIDATE_ALLOWED_PRODUCT_CODES == {22, 24, 25, 70, 71, 97}

\* str.isdigit for the ASCII strings of the model: non-empty, digits only
isdigit(str) ==
    /\ Len(str) > 0
    /\ \A i \in 1..Len(str) :
          SubSeq(str, i, i) \in {"0", "1", "2", "3", "4", "5", "6", "7", "8", "9"}

InternalKey(h) == <<h.isin, h.client_number, h.product_code>>

\* lines 14-29 with the shares check moved in front of the others
HoldingErrorSharesFirst(h, seen_keys) ==
    IF h.shares < 1 THEN "BAD_SHARES"
    ELSE IF Len(h.client_number) # 8 \/ ~isdigit(h.client_number)
    THEN "BAD_CLIENT_NUMBER"
    ELSE IF h.product_code \notin VALIDATE_ALLOWED_PRODUCT_CODES
    THEN "UNKNOWN_PRODUCT_CODE"
    ELSE IF h.account_number # mapping_make_account_number(h.client_number, h.product_code)
    THEN "BAD_ACCOUNT_NUMBER"
    ELSE IF InternalKey(h) \in seen_keys THEN "DUPLICATE_INTERNAL_KEY"
    ELSE ""

\* lines 14-29: the checks of one loop iteration, in the order of the code
HoldingError(h, seen_keys) ==
    IF Len(h.client_number) # 8 \/ ~isdigit(h.client_number)
    THEN "BAD_CLIENT_NUMBER"
    ELSE IF h.product_code \notin VALIDATE_ALLOWED_PRODUCT_CODES
    THEN "UNKNOWN_PRODUCT_CODE"
    ELSE IF h.account_number # mapping_make_account_number(h.client_number, h.product_code)
    THEN "BAD_ACCOUNT_NUMBER"
    ELSE IF h.shares < 1 THEN "BAD_SHARES"
    ELSE IF InternalKey(h) \in seen_keys THEN "DUPLICATE_INTERNAL_KEY"
    ELSE ""

\* lines 11-30: the loop, from holding i on, with the keys seen before it
RECURSIVE ValidateFrom(_, _, _)
ValidateFrom(hs, i, seen_keys) ==
    IF i > Len(hs) THEN ""
    ELSE LET err == HoldingError(hs[i], seen_keys)
         IN  IF err # "" THEN err
             ELSE ValidateFrom(hs, i + 1, seen_keys \cup {InternalKey(hs[i])})

validate_internal_holdings(hs) == ValidateFrom(hs, 1, {})

\* holdings as read_internal_holdings_csv builds them: crest_bucket None, a
\* cell that is no integer read as -1
CsvHolding(cn, product, acct, sh) ==
    [InternalHolding(cn, product, sh, NoBucket) EXCEPT !.account_number = acct]

ValidatePool ==
    { CsvHolding("11111111", 22, "1111111122", 1),
      CsvHolding("11111111", 22, "1111111122", 5),
      CsvHolding("22222222", 70, "2222222270", 2),
      CsvHolding("1234ABCD", 99, "WRONG", -1),
      CsvHolding("1234567", 22, "123456722", 1),
      CsvHolding("11111111", 99, "1111111122", 0),
      CsvHolding("11111111", 22, "11111111-22", 0),
      CsvHolding("11111111", 22, "1111111122", 0) }

InitValidate ==
    /\ holdings \in SeqsUpTo(ValidatePool, MaxHoldings)
    /\ dividend_per_share = 0
    /\ cli_pc = "read"
    /\ error = ""
    /\ credit_out = <<>>
    /\ exit_code = -1
    /\ CliFilesIdle
    /\ ParIdle
    /\ ReconIdle
    /\ CallerIdle
    /\ RoundingIdle

ValidateHoldings ==
    /\ cli_pc = "read"
    /\ error' = validate_internal_holdings(holdings)
    /\ cli_pc' = "validated"
    /\ UNCHANGED <<holdings, dividend_per_share, credit_out, exit_code, cliFiles>>
    /\ UNCHANGED <<reconVars, callerVars, roundVars, parVars>>

NextValidate ==
    \/ ValidateHoldings

SpecValidate == InitValidate /\ [][NextValidate]_vars

\* ------------------------------------------------------------------------
\* C20: validate_internal_holdings reports the first violation only.  The
\* holdings are scanned in input order; the error is that of the first
\* holding that breaks a rule, and within that holding the first rule broken
\* in the order client number, product code, account number, shares,
\* duplicate key; the function returns normally iff no holding breaks any
\* of the five rules.
\* ------------------------------------------------------------------------
EightDigits(str) ==
    /\ Len(str) = 8
    /\ \A i \in 1..8 : SubSeq(str, i, i) \in {"0", "1", "2", "3", "4", "5", "6", "7", "8", "9"}

\* the rules holding i breaks, as the numbers 1..5 of their order
RulesBroken(hs, i) ==
    LET h == hs[i]
    IN  (IF ~EightDigits(h.client_number) THEN {1} ELSE {})
        \cup (IF h.product_code \notin {22, 24, 25, 70, 71, 97} THEN {2} ELSE {})
        \cup (IF h.product_code \in 0..99
                 /\ h.account_number = h.client_number \o Fmt02d(h.product_code)
              THEN {} ELSE {3})
        \cup (IF h.shares < 1 THEN {4} ELSE {})
        \cup (IF \E j \in 1..(i - 1) :
                    /\ hs[j].isin = h.isin
                    /\ hs[j].client_number = h.client_number
                    /\ hs[j].product_code = h.product_code
              THEN {5} ELSE {})

RuleCode(n) ==
    <<"BAD_CLIENT_NUMBER", "UNKNOWN_PRODUCT_CODE", "BAD_ACCOUNT_NUMBER",
      "BAD_SHARES", "DUPLICATE_INTERNAL_KEY">>[n]

Least(S) == CHOOSE n \in S : \A m \in S : n <= m

C20_FirstViolationOnly ==
    cli_pc = "validated" =>
        LET bad == { i \in DOMAIN holdings : RulesBroken(holdings, i) # {} }
        IN  IF bad = {} THEN error = ""
            ELSE error = RuleCode(Least(RulesBroken(holdings, Least(bad))))

\* a valid holding followed by one that repeats its key and has no shares:
\* BAD_SHARES, not DUPLICATE_INTERNAL_KEY
C20_Witness ==
    /\ cli_pc = "validated"
    /\ Len(holdings) = 2
    /\ RulesBroken(holdings, 1) = {}
    /\ RulesBroken(holdings, 2) = {4, 5}
    /\ error = "BAD_SHARES"

\* an earlier holding's later rule wins over a later holding's earlier rule
C20_CaseEarlierHoldingWins ==
    /\ cli_pc = "validated"
    /\ Len(holdings) = 2
    /\ RulesBroken(holdings, 1) = {4}
    /\ 1 \in RulesBroken(holdings, 2)
    /\ error = "BAD_SHARES"

\* a holding that breaks the first four rules at once
C20_CaseAllRulesBroken ==
    /\ cli_pc = "validated"
    /\ \E i \in DOMAIN holdings : RulesBroken(holdings, i) = {1, 2, 3, 4}
    /\ error = "BAD_CLIENT_NUMBER"

\* a repeated key alone, and a list that validates
C20_CaseDuplicateKey ==
    /\ cli_pc = "validated"
    /\ Len(holdings) = 2
    /\ RulesBroken(holdings, 2) = {5}
    /\ holdings[1] # holdings[2]
    /\ error = "DUPLICATE_INTERNAL_KEY"

C20_CaseReturnsNormally ==
    /\ cli_pc = "validated"
    /\ Len(holdings) = 2
    /\ error = ""

\* ------------------------------------------------------------------------
\* validate/validate_crest.py.  The ValueError raised is the value of the
\* function, "" standing for a normal return.
\* ------------------------------------------------------------------------
CrestKey(r) == <<r.isin, r.crest_bucket>>

\* Decimal("NaN"), which read_crest_snapshot_csv builds from a cell "NaN"
\* (io/crest_csv.py lines 53-62); a value no amount of the model takes
NaN == -1000000

\* lines 23-37: the checks of one loop iteration; ordering a NaN against 0
\* (lines 34, 36) raises decimal.InvalidOperation, which is no ValueError
CrestRowError(r, seen) ==
    IF r.crest_bucket \notin {"ISA", "SIPP", "GIA"} THEN "BAD_BUCKET"
    ELSE IF CrestKey(r) \in seen THEN "DUPLICATE_BUCKET_ROW"
    ELSE IF r.shares < 0 THEN "BAD_SHARES"
    ELSE IF r.dividend_per_share = NaN THEN "InvalidOperation"
    ELSE IF r.dividend_per_share < 0 THEN "BAD_RATE"
    ELSE IF r.cash_credited = NaN THEN "InvalidOperation"
    ELSE IF r.cash_credited < 0 THEN "BAD_CASH"
    ELSE ""

\* lines 21-37: the loop, from row i on, with the keys seen before it
RECURSIVE CrestRowsErrorFrom(_, _, _)
CrestRowsErrorFrom(rows, i, seen) ==
    IF i > Len(rows) THEN ""
    ELSE LET err == CrestRowError(rows[i], seen)
         IN  IF err # "" THEN err
             ELSE CrestRowsErrorFrom(rows, i + 1, seen \cup {CrestKey(rows[i])})

validate_crest_snapshot(rows) ==
    IF Cardinality({rows[i].isin : i \in DOMAIN rows}) > 1 THEN "MULTI_ISIN_CREST"
    ELSE IF CrestRowsErrorFrom(rows, 1, {}) # "" THEN CrestRowsErrorFrom(rows, 1, {})
    ELSE IF {rows[i].crest_bucket : i \in DOMAIN rows} # {"ISA", "SIPP", "GIA"}
    THEN "MISSING_BUCKET"
    ELSE IF \E i \in DOMAIN rows : rows[i].dividend_per_share # rows[1].dividend_per_share
    THEN "RATE_MISMATCH_ACROSS_BUCKETS"
    ELSE ""

\* ------------------------------------------------------------------------
\* calc/entitlements.py
\* ------------------------------------------------------------------------
\* lines 21-22 quantizing with the default rounding, half to even
EntitlementCashHalfEven(shares, rate) == round_half_even(shares * rate, 2)

\* lines 21-22
EntitlementCash(shares, rate) == round_half_up(shares * rate, 2)

\* lines 18-41
compute_client_credit_lines(hs, rate) ==
    [i \in DOMAIN hs |->
        CreditLine(hs[i].client_number, hs[i].product_code, hs[i].account_number,
                   bucket_for_product(hs[i].product_code), hs[i].shares, rate,
                   EntitlementCash(hs[i].shares, rate), "CLIENT")]

\* ------------------------------------------------------------------------
\* cli.py: cmd_run, from the files read to the exit code
\* ------------------------------------------------------------------------
EXIT_PASS == 0
EXIT_FAIL == 2
EXIT_INPUT_ERROR == 3

\* Decimal.quantize(Decimal("0.01")) in the default context: half to even
quantize(v, p) ==
    LET q == Quantum(p)
        a == Abs(v)
        lo == (a \div q) * q
        r == IF 2 * (a - lo) < q THEN lo
             ELSE IF 2 * (a - lo) > q THEN lo + q
             ELSE IF (lo \div q) % 2 = 0 THEN lo ELSE lo + q
    IN  IF v < 0 THEN -r ELSE r

\* lines 125-130 without the join: the bucket of the last posting
BucketByAcctOfLastLine(lines, acct) ==
    IF Len(lines) = 0 THEN NoBucket ELSE lines[Len(lines)].crest_bucket

\* lines 125-130: the bucket of the last posting with this account number
BucketByAcct(lines, acct) ==
    LET at == { i \in DOMAIN lines : /\ lines[i].account_number = acct
                                     /\ acct # ""
                                     /\ lines[i].crest_bucket # NoBucket }
    IN  IF at = {} THEN NoBucket
        ELSE lines[CHOOSE i \in at : \A j \in at : j <= i].crest_bucket

\* lines 132-144
enrich_holdings_from_lines(hs, lines) ==
    [i \in DOMAIN hs |->
        LET bucket == BucketByAcct(lines, hs[i].account_number)
        IN  IF bucket = NoBucket THEN hs[i]
            ELSE [hs[i] EXCEPT !.crest_bucket = bucket]]

\* lines 191-206
CliHouseLine(br, rate, amt) ==
    CreditLine("55555555", 22, "5555555522", br.crest_bucket, 0, rate, amt,
               "HOUSE_ROUNDING")

\* lines 176-207
RECURSIVE house_lines_from_bucket_results(_, _)
house_lines_from_bucket_results(rate, results) ==
    IF Len(results) = 0 THEN <<>>
    ELSE LET br == Head(results)
             amt == quantize(br.residual_to_house, 2)
         IN  (IF amt = 0 THEN <<>> ELSE <<CliHouseLine(br, rate, amt)>>)
             \o house_lines_from_bucket_results(rate, Tail(results))

\* io/outputs.py, write_credit_file_csv: the cash of a row is quantized
CreditFileRows(lines) ==
    [i \in DOMAIN lines |->
        [lines[i] EXCEPT !.cash_credited = quantize(lines[i].cash_credited, 2)]]

\* the internal file: holdings of the three buckets, and one without shares
CliHoldingPool ==
    { CsvHolding("11111111", 22, "1111111122", 1),
      CsvHolding("22222222", 70, "2222222270", 2),
      CsvHolding("33333333", 97, "3333333397", 15),
      CsvHolding("44444444", 24, "4444444424", 0) }

CliSnapshot(isa_shares, isa_cash, sipp_shares, sipp_cash, gia_shares, gia_cash) ==
    << CrestBucketSnapshot("ISA", isa_shares, 3333, isa_cash),
       CrestBucketSnapshot("SIPP", sipp_shares, 3333, sipp_cash),
       CrestBucketSnapshot("GIA", gia_shares, 3333, gia_cash) >>

\* the CREST file: snapshots that agree with holdings of the pool to the
\* penny, within a penny, or within a fraction of a penny; one without
\* holdings; one without its GIA row
CliCrestInputs ==
    { CliSnapshot(1, 3300, 2, 6700, 0, 0),
      CliSnapshot(1, 3333, 2, 6666, 0, 0),
      CliSnapshot(1, 3300, 2, 6800, 0, 0),
      CliSnapshot(1, 3400, 0, 0, 15, 49900),
      CliSnapshot(0, 0, 0, 0, 0, 0),
      SubSeq(CliSnapshot(1, 3300, 2, 6700, 0, 0), 1, 2) }

CliRates == {3333, 50}

\* --dividend-per-share absent: args.dividend_per_share is None (line 84)
NoRate == -2000000

\* what argparse hands over: a rate, Decimal("NaN") (line 40 accepts it), or None
CliArgRates == CliRates \cup {NaN, NoRate}

\* lines 220-239: run_outdir is made if it is not there, run_summary.json
\* is written with status STARTED and the audit log gets RUN_STARTED
StartFiles == {"run_summary.json", "audit_log.jsonl"}

CliStarted(left) ==
    /\ found = left
    /\ run_files = left \cup StartFiles
    /\ written = StartFiles
    /\ status = "STARTED"
    /\ runs = 1

InitCli ==
    /\ holdings \in SeqsUpTo(CliHoldingPool, MaxHoldings)
    /\ crest_rows \in CliCrestInputs
    /\ dividend_per_share \in CliArgRates
    /\ cli_pc = "read"
    /\ error = ""
    /\ credit_out = <<>>
    /\ exit_code = -1
    /\ CliStarted({})
    /\ ParIdle
    /\ internal_holdings = <<>>
    /\ client_lines = <<>>
    /\ residual_tolerance = 0
    /\ pc = "idle"
    /\ crest_by_bucket = <<>>
    /\ internal_shares = <<>>
    /\ internal_cash_pre = <<>>
    /\ bucket_results = <<>>
    /\ breaks = <<>>
    /\ fail_reasons = <<>>
    /\ recon = NoRecon
    /\ final_credit_lines = <<>>
    /\ ret_breaks = <<>>
    /\ raised = ""
    /\ CallerIdle
    /\ RoundingIdle

\* lines 255-260 without the validation of the CREST rows
InputErrorHoldingsOnly(hs, rows) == validate_internal_holdings(hs)

\* lines 255-260: the first error of the two validations, holdings first
InputError(hs, rows) ==
    IF validate_internal_holdings(hs) # "" THEN validate_internal_holdings(hs)
    ELSE validate_crest_snapshot(rows)

\* lines 276-297: a NaN rate makes the cash of every posting NaN, and
\* reconcile_run's abs(residual) <= tolerance (reconcile.py line 62) then
\* raises decimal.InvalidOperation; without postings nothing is NaN
ProcessingError(hs, rate) ==
    IF rate = NaN /\ Len(hs) > 0 THEN "InvalidOperation" ELSE ""

\* lines 241-253: no --dividend-per-share
CliMissingRate ==
    /\ cli_pc = "read"
    /\ dividend_per_share = NoRate
    /\ error' = "Missing required --dividend-per-share"
    /\ status' = "INPUT_ERROR"
    /\ exit_code' = EXIT_INPUT_ERROR
    /\ cli_pc' = "exited"
    /\ UNCHANGED <<holdings, dividend_per_share, credit_out, run_files, written,
                   found, runs>>
    /\ UNCHANGED <<reconVars, callerVars, roundVars, parVars>>

\* lines 255-273, an input that does not validate
CliInputError ==
    /\ cli_pc = "read"
    /\ dividend_per_share # NoRate
    /\ InputError(holdings, crest_rows) # ""
    /\ error' = InputError(holdings, crest_rows)
    /\ status' = "INPUT_ERROR"
    /\ exit_code' = EXIT_INPUT_ERROR
    /\ cli_pc' = "exited"
    /\ UNCHANGED <<holdings, dividend_per_share, credit_out, run_files, written,
                   found, runs>>
    /\ UNCHANGED <<reconVars, callerVars, roundVars, parVars>>

\* lines 275-310: validated inputs on which the computation of the postings
\* or reconcile_run raises; the audit log gets PROCESSING_ERROR and the
\* summary the status INPUT_ERROR
CliProcessingError ==
    /\ cli_pc = "read"
    /\ dividend_per_share # NoRate
    /\ InputError(holdings, crest_rows) = ""
    /\ ProcessingError(holdings, dividend_per_share) # ""
    /\ pc' = "raised"
    /\ raised' = ProcessingError(holdings, dividend_per_share)
    /\ error' = ProcessingError(holdings, dividend_per_share)
    /\ status' = "INPUT_ERROR"
    /\ exit_code' = EXIT_INPUT_ERROR
    /\ cli_pc' = "exited"
    /\ UNCHANGED <<inputs, crest_by_bucket, internal_shares, internal_cash_pre,
                   bucket_results, breaks, fail_reasons, recon,
                   final_credit_lines, ret_breaks>>
    /\ UNCHANGED <<holdings, dividend_per_share, credit_out, run_files, written,
                   found, runs>>
    /\ UNCHANGED <<callerVars, roundVars, parVars>>

\* lines 255-296, an input that validates: the postings are computed, the
\* holdings are given their buckets and reconcile_run is called
CliReconcile ==
    /\ cli_pc = "read"
    /\ dividend_per_share # NoRate
    /\ InputError(holdings, crest_rows) = ""
    /\ ProcessingError(holdings, dividend_per_share) = ""
    /\ LET lines == compute_client_credit_lines(holdings, dividend_per_share)
           enriched == enrich_holdings_from_lines(holdings, lines)
       IN  /\ client_lines' = lines
           /\ holdings' = enriched
           /\ internal_holdings' = enriched
    /\ residual_tolerance' = 100
    /\ pc' = "start"
    /\ cli_pc' = "reconciling"
    /\ UNCHANGED <<crest_rows, crest_by_bucket, internal_shares, internal_cash_pre,
                   bucket_results, breaks, fail_reasons, recon,
                   final_credit_lines, ret_breaks, raised>>
    /\ UNCHANGED <<dividend_per_share, error, credit_out, exit_code, cliFiles>>
    /\ UNCHANGED <<callerVars, roundVars, parVars>>

\* lines 313, 332-336 leaving an earlier break report where it is
FilesAfterPassKeepingBreakReport(files) ==
    files \cup {"recon_report.csv", "credit_file.csv"}

\* lines 313, 332-336: the reports of a passed run; break_report.csv is
\* unlinked if it is there
FilesAfterPass(files) ==
    (files \cup {"recon_report.csv", "credit_file.csv"}) \ {"break_report.csv"}

\* lines 313, 353-357: the reports of a failed run; credit_file.csv is
\* unlinked if it is there
FilesAfterFail(files) ==
    (files \cup {"recon_report.csv", "break_report.csv"}) \ {"credit_file.csv"}

\* lines 315-350: a passed run writes the credit file
CliWritePass ==
    /\ cli_pc = "reconciling"
    /\ pc = "done"
    /\ recon.pass_run
    /\ credit_out' = CreditFileRows(
                        client_lines \o house_lines_from_bucket_results(
                                            dividend_per_share, recon.bucket_results))
    /\ run_files' = FilesAfterPass(run_files)
    /\ written' = written \cup {"recon_report.csv", "credit_file.csv"}
    /\ status' = "PASS"
    /\ exit_code' = EXIT_PASS
    /\ cli_pc' = "exited"
    /\ UNCHANGED <<holdings, dividend_per_share, error, found, runs>>
    /\ UNCHANGED <<reconVars, callerVars, roundVars, parVars>>

\* lines 315-371: a failed run writes no credit file
CliWriteFail ==
    /\ cli_pc = "reconciling"
    /\ pc = "done"
    /\ ~recon.pass_run
    /\ credit_out' = <<>>
    /\ run_files' = FilesAfterFail(run_files)
    /\ written' = written \cup {"recon_report.csv", "break_report.csv"}
    /\ status' = "FAIL"
    /\ exit_code' = EXIT_FAIL
    /\ cli_pc' = "exited"
    /\ UNCHANGED <<holdings, dividend_per_share, error, found, runs>>
    /\ UNCHANGED <<reconVars, callerVars, roundVars, parVars>>

\* validated rows hold the three buckets and the holdings passed on carry
\* their buckets, so reconcile_run raises neither of its two exceptions here
NextCli ==
    \/ CliMissingRate
    \/ CliInputError
    \/ CliProcessingError
    \/ CliReconcile
    \/ Aggregate
    \/ CompareBucket
    \/ Decide
    \/ Settle
    \/ CliWritePass
    \/ CliWriteFail

SpecCli == InitCli /\ [][NextCli]_vars

\* under cmd_run the guards of RaiseMissingBucket and RaiseKeyError are false
\* when reconcile_run is entered
CliReconcileRunNeverRaises ==
    (cli_pc = "reconciling" /\ pc = "start") =>
        /\ DOMAIN CrestByBucket(crest_rows) = expected
        /\ ~SharesKeyError(internal_holdings)

\* ------------------------------------------------------------------------
\* Vocabulary of the properties of cmd_run
\* ------------------------------------------------------------------------
CliPassed == cli_pc = "exited" /\ exit_code = 0

HouseRowsOf(rows, b) ==
    { i \in DOMAIN rows : rows[i].crest_bucket = b /\ rows[i].line_type = "HOUSE_ROUNDING" }

RECURSIVE SumCashOfBucket(_, _)
SumCashOfBucket(rows, b) ==
    IF Len(rows) = 0 THEN 0
    ELSE (IF Head(rows).crest_bucket = b THEN Head(rows).cash_credited ELSE 0)
         + SumCashOfBucket(Tail(rows), b)

\* ------------------------------------------------------------------------
\* C15: on a passed CLI run, per bucket, the cash of all rows of the bucket
\* in credit_file.csv, CLIENT and HOUSE_ROUNDING, sums to the bucket's
\* authoritative cash exactly, and a house row is written for every bucket
\* whose residual is not exactly zero, the residual not being rounded.
\* ------------------------------------------------------------------------
C15_CreditFileTiesOutToAuthoritativeCash ==
    CliPassed =>
        \A b \in expected :
            /\ SumCashOfBucket(credit_out, b) = AuthoritativeRow(b).cash_credited
            /\ (ResultOf(b).residual_to_house # 0) => HouseRowsOf(credit_out, b) # {}

\* what holds instead: the file ties out to the authoritative cash rounded
\* to the penny next to the postings, within half a penny of it
C15_CaseTiesOutWithinHalfAPenny ==
    CliPassed =>
        \A b \in expected :
            /\ 2 * Abs(SumCashOfBucket(credit_out, b) - AuthoritativeRow(b).cash_credited)
                 <= 100
            /\ SumCashOfBucket(credit_out, b) % 100 = 0

\* a passed CLI run with residuals of a fraction of a penny and no house row
C15_CaseFractionOfAPennyLost ==
    /\ CliPassed
    /\ \E b \in expected :
          /\ ResultOf(b).residual_to_house > 0
          /\ ResultOf(b).residual_to_house < 100
          /\ HouseRowsOf(credit_out, b) = {}
    /\ \A i \in DOMAIN credit_out : credit_out[i].line_type = "CLIENT"

\* ------------------------------------------------------------------------
\* C16: in the credit file of a passed CLI run every HOUSE_ROUNDING row
\* goes to the house account of its own bucket: client 55555555 with
\* product code 22 and account 5555555522 for ISA, 70 and 5555555570 for
\* SIPP, 97 and 5555555597 for GIA.
\* ------------------------------------------------------------------------
C16_HouseRowsGoToTheirBucketsAccount ==
    CliPassed =>
        \A i \in DOMAIN credit_out :
            credit_out[i].line_type = "HOUSE_ROUNDING" =>
                /\ credit_out[i].client_number = "55555555"
                /\ credit_out[i].crest_bucket = "ISA" =>
                      /\ credit_out[i].product_code = 22
                      /\ credit_out[i].account_number = "5555555522"
                /\ credit_out[i].crest_bucket = "SIPP" =>
                      /\ credit_out[i].product_code = 70
                      /\ credit_out[i].account_number = "5555555570"
                /\ credit_out[i].crest_bucket = "GIA" =>
                      /\ credit_out[i].product_code = 97
                      /\ credit_out[i].account_number = "5555555597"

\* the part of C16 that holds: an ISA house row goes to 5555555522
C16_CaseIsaHouseRow ==
    CliPassed =>
        \A i \in HouseRowsOf(credit_out, "ISA") :
            /\ credit_out[i].client_number = "55555555"
            /\ credit_out[i].product_code = 22
            /\ credit_out[i].account_number = "5555555522"

\* a passed CLI run whose SIPP house row of a penny is booked to 5555555522
C16_CaseSippHouseRowOnIsaAccount ==
    /\ CliPassed
    /\ \E i \in HouseRowsOf(credit_out, "SIPP") :
          /\ credit_out[i].cash_credited = 100
          /\ credit_out[i].product_code = 22
          /\ credit_out[i].account_number = "5555555522"

\* ------------------------------------------------------------------------
\* C17: compute_client_credit_lines returns one CLIENT posting per holding,
\* in input order, with the holding's client number, product code, account
\* number and shares, the declared rate, the cash shares x rate rounded
\* half up to the penny, and the bucket of the product code.  At rate
\* 0.3333, 1 share gives 0.33, 2 shares 0.67 and 15 shares 5.00.
\* ------------------------------------------------------------------------
C17_OneClientPostingPerHolding ==
    cli_pc \in {"reconciling", "exited"} /\ error = "" =>
        /\ Len(client_lines) = Len(holdings)
        /\ \A i \in DOMAIN holdings :
              LET h == holdings[i]
                  ln == client_lines[i]
                  raw == h.shares * dividend_per_share
              IN  /\ ln.line_type = "CLIENT"
                  /\ ln.client_number = h.client_number
                  /\ ln.product_code = h.product_code
                  /\ ln.account_number = h.account_number
                  /\ ln.shares = h.shares
                  /\ ln.dividend_per_share = dividend_per_share
                  /\ ln.cash_credited % 100 = 0
                  /\ 2 * Abs(ln.cash_credited - raw) <= 100
                  /\ 2 * Abs(ln.cash_credited - raw) = 100 => ln.cash_credited > raw
                  /\ ln.crest_bucket = (CASE h.product_code \in {22, 24, 25} -> "ISA"
                                          [] h.product_code \in {70, 71} -> "SIPP"
                                          [] h.product_code = 97 -> "GIA")
                  /\ (dividend_per_share = 3333 /\ h.shares = 1) => ln.cash_credited = 3300
                  /\ (dividend_per_share = 3333 /\ h.shares = 2) => ln.cash_credited = 6700
                  /\ (dividend_per_share = 3333 /\ h.shares = 15) => ln.cash_credited = 50000

\* two holdings of different buckets at rate 0.3333, 15 shares among them
C17_Witness ==
    /\ cli_pc = "reconciling"
    /\ dividend_per_share = 3333
    /\ Len(holdings) = 2
    /\ holdings[1].shares = 15
    /\ holdings[2].shares = 2
    /\ client_lines[1].cash_credited = 50000
    /\ client_lines[1].crest_bucket = "GIA"
    /\ client_lines[2].cash_credited = 6700
    /\ client_lines[2].crest_bucket = "SIPP"

\* a product of exactly half a penny: 1 share at 0.0050 gives 0.01
C17_CaseHalfAPenny ==
    /\ cli_pc = "reconciling"
    /\ dividend_per_share = 50
    /\ \E i \in DOMAIN holdings :
          holdings[i].shares = 1 /\ client_lines[i].cash_credited = 100

\* ------------------------------------------------------------------------
\* C29: with a non-negative tolerance, in every BucketOutcome the internal
\* cash after the residual plus the remaining cash difference is the
\* authoritative cash, and the remaining difference is zero iff the
\* residual is within the tolerance; so on a passed run every bucket has
\* shares_diff 0 and cash_diff_post_residual 0.
\* ------------------------------------------------------------------------
C29_PostResidualCashIdentity ==
    residual_tolerance >= 0 =>
        /\ \A i \in DOMAIN bucket_results :
              LET br == bucket_results[i]
                  auth == AuthoritativeRow(Buckets[i])
              IN  /\ br.internal_cash_post_residual + br.cash_diff_post_residual
                       = auth.cash_credited
                  /\ (br.cash_diff_post_residual = 0)
                       <=> (Abs(auth.cash_credited - br.internal_cash_pre_residual)
                              <= residual_tolerance)
        /\ PassedRun =>
              \A i \in DOMAIN recon.bucket_results :
                  /\ recon.bucket_results[i].shares_diff = 0
                  /\ recon.bucket_results[i].cash_diff_post_residual = 0

\* a returned run with a bucket whose residual of a penny was absorbed and a
\* bucket whose residual was not: the tolerance is 0 or the residual larger
C29_Witness ==
    /\ Returned
    /\ \E i \in DOMAIN recon.bucket_results :
          /\ recon.bucket_results[i].residual_to_house # 0
          /\ recon.bucket_results[i].cash_diff_post_residual = 0
          /\ recon.bucket_results[i].internal_cash_post_residual
               # recon.bucket_results[i].internal_cash_pre_residual
    /\ \E i \in DOMAIN recon.bucket_results :
          /\ recon.bucket_results[i].cash_diff_post_residual # 0
          /\ recon.bucket_results[i].internal_cash_post_residual
               = recon.bucket_results[i].internal_cash_pre_residual

\* a passed run with a residual
C29_CasePassedRun == PassedRun /\ NonzeroResidualBuckets # {}

\* ------------------------------------------------------------------------
\* SpecCrest: validate_crest_snapshot applied to rows as
\* read_crest_snapshot_csv builds them
\* ------------------------------------------------------------------------
\* rows of a crest.csv: the three buckets at one rate, and rows breaking one
\* rule each
CrestValidatePool ==
    { CrestBucketSnapshot("ISA", 1, 3333, 3333),
      CrestBucketSnapshot("SIPP", 0, 3333, 0),
      CrestBucketSnapshot("GIA", 2, 3333, 6700),
      [CrestBucketSnapshot("GIA", 2, 3333, 6700) EXCEPT !.isin = "GB00TEST0002"],
      CrestBucketSnapshot("FOO", 1, 3333, 3333),
      CrestBucketSnapshot("ISA", -1, 3333, 3333),
      CrestBucketSnapshot("SIPP", 0, 50, 0),
      CrestBucketSnapshot("SIPP", 0, -3333, 0),
      CrestBucketSnapshot("GIA", 2, 3333, -100),
      CrestBucketSnapshot("ISA", 1, NaN, 3333),
      CrestBucketSnapshot("GIA", 2, 3333, NaN) }

InitCrest ==
    /\ crest_rows \in SeqsUpTo(CrestValidatePool, MaxCrestRows)
    /\ internal_holdings = <<>>
    /\ client_lines = <<>>
    /\ residual_tolerance = 0
    /\ pc = "idle"
    /\ crest_by_bucket = <<>>
    /\ internal_shares = <<>>
    /\ internal_cash_pre = <<>>
    /\ bucket_results = <<>>
    /\ breaks = <<>>
    /\ fail_reasons = <<>>
    /\ recon = NoRecon
    /\ final_credit_lines = <<>>
    /\ ret_breaks = <<>>
    /\ raised = ""
    /\ holdings = <<>>
    /\ dividend_per_share = 0
    /\ cli_pc = "read"
    /\ error = ""
    /\ credit_out = <<>>
    /\ exit_code = -1
    /\ CliFilesIdle
    /\ ParIdle
    /\ CallerIdle
    /\ RoundingIdle

\* validate_crest_snapshot(rows): error is the name of what it raised, ""
\* when it returned
ValidateCrest ==
    /\ cli_pc = "read"
    /\ error' = validate_crest_snapshot(crest_rows)
    /\ cli_pc' = "validated"
    /\ UNCHANGED <<holdings, dividend_per_share, credit_out, exit_code, cliFiles>>
    /\ UNCHANGED <<reconVars, callerVars, roundVars, parVars>>

NextCrest ==
    \/ ValidateCrest

SpecCrest == InitCrest /\ [][NextCrest]_vars

\* the ValueError codes of validate_crest_snapshot
CrestCategories ==
    {"MULTI_ISIN_CREST", "BAD_BUCKET", "DUPLICATE_BUCKET_ROW", "BAD_SHARES",
     "BAD_RATE", "BAD_CASH", "MISSING_BUCKET", "RATE_MISMATCH_ACROSS_BUCKETS"}

\* d >= 0 for a Decimal: false for NaN
DecimalNonNegative(d) == d # NaN /\ d >= 0

\* three rows, one per bucket, one isin, one rate, nothing negative
WellFormedSnapshot(rows) ==
    /\ Len(rows) = 3
    /\ \A b \in expected : \E i \in DOMAIN rows : rows[i].crest_bucket = b
    /\ \A i, j \in DOMAIN rows :
          /\ rows[i].isin = rows[j].isin
          /\ rows[i].dividend_per_share = rows[j].dividend_per_share
    /\ \A i \in DOMAIN rows :
          /\ rows[i].shares >= 0
          /\ DecimalNonNegative(rows[i].dividend_per_share)
          /\ DecimalNonNegative(rows[i].cash_credited)

HasNaN(rows) ==
    \E i \in DOMAIN rows :
        rows[i].dividend_per_share = NaN \/ rows[i].cash_credited = NaN

\* ------------------------------------------------------------------------
\* C21: validate_crest_snapshot returns normally iff the rows are exactly
\* three, one for each of ISA, SIPP and GIA, with one isin and one rate and
\* shares, rate and cash all >= 0; for every other row list it raises one of
\* its categorized failures and never anything else.
\* ------------------------------------------------------------------------
C21_ReturnsIffWellFormedElseCategorized ==
    cli_pc = "validated" =>
        /\ (error = "") <=> WellFormedSnapshot(crest_rows)
        /\ error # "" => error \in CrestCategories

\* the same for rows whose rate and cash are numbers
C21_CaseNumbersOnly ==
    (cli_pc = "validated" /\ ~HasNaN(crest_rows)) =>
        /\ (error = "") <=> WellFormedSnapshot(crest_rows)
        /\ error # "" => error \in CrestCategories

\* a snapshot of the three buckets whose ISA rate is NaN ends in
\* decimal.InvalidOperation
C21_CaseNaNRateRaisesInvalidOperation ==
    /\ cli_pc = "validated"
    /\ Len(crest_rows) = 3
    /\ {crest_rows[i].crest_bucket : i \in DOMAIN crest_rows} = expected
    /\ \E i \in DOMAIN crest_rows : crest_rows[i].dividend_per_share = NaN
    /\ error = "InvalidOperation"

\* the three well-formed rows in another order than ISA, SIPP, GIA return
C21_CaseReturnsNormally ==
    /\ cli_pc = "validated"
    /\ error = ""
    /\ crest_rows[1].crest_bucket = "GIA"

\* the empty list raises MISSING_BUCKET
C21_CaseEmptyList ==
    (cli_pc = "validated" /\ crest_rows = <<>>) => error = "MISSING_BUCKET"

\* ------------------------------------------------------------------------
\* SpecPerm: a caller that invokes reconcile_run again on the same rows and
\* holdings in another order
\* ------------------------------------------------------------------------
\* every ordering of the elements of a list
Orderings(s) ==
    { [i \in DOMAIN s |-> s[p[i]]] : p \in Permutations(DOMAIN s) }

PermHoldingsInputs ==
    { <<>>,
      <<InternalHolding("11111111", 22, 1, "ISA"), InternalHolding("22222222", 70, 1, "SIPP")>>,
      <<InternalHolding("11111111", 22, 1, "ISA"), UnbucketedHolding>> }

\* one row per bucket; a second, different ISA row; no GIA row
PermCrestInputs ==
    { <<CrestBucketSnapshot("ISA", 1, 110, 100), CrestBucketSnapshot("SIPP", 1, 110, 100),
        CrestBucketSnapshot("GIA", 0, 110, 0)>>,
      <<CrestBucketSnapshot("ISA", 1, 110, 100), CrestBucketSnapshot("ISA", 0, 110, 0),
        CrestBucketSnapshot("SIPP", 1, 110, 100), CrestBucketSnapshot("GIA", 0, 110, 0)>>,
      <<CrestBucketSnapshot("ISA", 1, 110, 100), CrestBucketSnapshot("SIPP", 1, 110, 100)>> }

InitPerm ==
    /\ internal_holdings \in PermHoldingsInputs
    /\ crest_rows \in PermCrestInputs
    /\ client_lines \in SeqsUpTo(LinePool, 1)
    /\ residual_tolerance \in Tolerances
    /\ pc = "start"
    /\ crest_by_bucket = <<>>
    /\ internal_shares = <<>>
    /\ internal_cash_pre = <<>>
    /\ bucket_results = <<>>
    /\ breaks = <<>>
    /\ fail_reasons = <<>>
    /\ recon = NoRecon
    /\ final_credit_lines = <<>>
    /\ ret_breaks = <<>>
    /\ raised = ""
    /\ calls = 1
    /\ given = inputs
    /\ remembered = NoCall
    /\ RoundingIdle
    /\ CliIdle
    /\ ParIdle

\* the caller keeps the ended invocation's arguments and results and calls
\* again with the rows and the holdings in any order
Reorder ==
    /\ pc \in {"done", "raised"}
    /\ calls < MaxCalls
    /\ \E hs \in Orderings(internal_holdings), rows \in Orderings(crest_rows) :
          /\ internal_holdings' = hs
          /\ crest_rows' = rows
          /\ given' = <<hs, rows, client_lines, residual_tolerance>>
    /\ remembered' = [call |-> calls, given |-> given, outcome |-> Outcome]
    /\ calls' = calls + 1
    /\ pc' = "start"
    /\ crest_by_bucket' = <<>>
    /\ internal_shares' = <<>>
    /\ internal_cash_pre' = <<>>
    /\ bucket_results' = <<>>
    /\ breaks' = <<>>
    /\ fail_reasons' = <<>>
    /\ recon' = NoRecon
    /\ final_credit_lines' = <<>>
    /\ ret_breaks' = <<>>
    /\ raised' = ""
    /\ UNCHANGED <<client_lines, residual_tolerance>>
    /\ UNCHANGED <<roundVars, cliVars, parVars>>

NextPerm ==
    \/ RaiseMissingBucket
    \/ RaiseKeyError
    \/ Aggregate
    \/ CompareBucket
    \/ Decide
    \/ Settle
    \/ Reorder

SpecPerm == InitPerm /\ [][NextPerm]_vars

\* the invocation has ended and the one before it had the same rows and
\* holdings in some order
EndedAfterReordering == pc \in {"done", "raised"} /\ remembered # NoCall

\* the rows or the holdings of the ended invocation are in another order
\* than in the one before it
Reordered ==
    \/ remembered.given[1] # internal_holdings
    \/ remembered.given[2] # crest_rows

\* ------------------------------------------------------------------------
\* C23: bucket_results lists exactly the three buckets in the order ISA,
\* SIPP, GIA, and the RunOutcome, the pass/fail decision and the break list
\* are the same for any other order of the authoritative rows and any other
\* order of the holdings.
\* ------------------------------------------------------------------------
C23_FixedBucketOrderAndOrderInsensitive ==
    /\ Returned =>
          /\ Len(recon.bucket_results) = 3
          /\ \A i \in 1..3 : recon.bucket_results[i].crest_bucket = Buckets[i]
    /\ EndedAfterReordering =>
          /\ remembered.outcome.raised = raised
          /\ remembered.outcome.recon = recon
          /\ remembered.outcome.breaks = ret_breaks

\* the same for rows with one row per bucket at most
C23_CaseNoBucketTwice ==
    (/\ \A b \in expected : Cardinality(RowsOfBucket(crest_rows, b)) <= 1) =>
        /\ Returned =>
              /\ Len(recon.bucket_results) = 3
              /\ \A i \in 1..3 : recon.bucket_results[i].crest_bucket = Buckets[i]
        /\ EndedAfterReordering =>
              /\ remembered.outcome.raised = raised
              /\ remembered.outcome.recon = recon
              /\ remembered.outcome.breaks = ret_breaks

\* one row per bucket, rows and holdings both in another order: same result
C23_CaseReorderedSameResult ==
    /\ Returned
    /\ EndedAfterReordering
    /\ ExactlyOneRowPerBucket(crest_rows)
    /\ remembered.given[1] # internal_holdings
    /\ remembered.given[2] # crest_rows
    /\ crest_rows[1].crest_bucket = "GIA"
    /\ remembered.outcome = Outcome

\* two ISA rows exchanged: the run that passed now fails
C23_CaseTwoIsaRowsExchanged ==
    /\ Returned
    /\ EndedAfterReordering
    /\ remembered.given[1] = internal_holdings
    /\ remembered.outcome.raised = ""
    /\ remembered.outcome.recon.pass_run
    /\ ~recon.pass_run

\* the fields of a posting that C25 names
PostingFields(line) ==
    <<line.client_number, line.product_code, line.account_number,
      line.crest_bucket, line.shares, line.dividend_per_share, line.cash_credited>>

\* ------------------------------------------------------------------------
\* C25: on a passed CLI run the rows of credit_file.csv are exactly the
\* final posting set reconcile_run returned for the run: the same postings
\* in the same order, with the same client number, product code, account
\* number, bucket, shares, rate and cash.
\* ------------------------------------------------------------------------
C25_CreditFileIsReturnedPostingSet ==
    CliPassed =>
        /\ Len(credit_out) = Len(final_credit_lines)
        /\ \A i \in DOMAIN credit_out :
              i \in DOMAIN final_credit_lines =>
                  PostingFields(credit_out[i]) = PostingFields(final_credit_lines[i])

\* what holds: the CLIENT rows of the file are the CLIENT postings returned
C25_CaseClientRowsAreReturnedClientPostings ==
    CliPassed =>
        /\ Len(client_lines) <= Len(credit_out)
        /\ \A i \in DOMAIN client_lines :
              /\ final_credit_lines[i].line_type = "CLIENT"
              /\ PostingFields(credit_out[i]) = PostingFields(final_credit_lines[i])
        /\ \A i \in DOMAIN credit_out :
              i > Len(client_lines) => credit_out[i].line_type = "HOUSE_ROUNDING"

\* a passed run whose file has an ISA house row of the same amount as the
\* returned one, on another account number
C25_CaseHouseRowOnAnotherAccount ==
    /\ CliPassed
    /\ Len(credit_out) = Len(final_credit_lines)
    /\ \E i \in DOMAIN credit_out :
          /\ credit_out[i].line_type = "HOUSE_ROUNDING"
          /\ final_credit_lines[i].line_type = "HOUSE_ROUNDING"
          /\ credit_out[i].crest_bucket = "ISA"
          /\ final_credit_lines[i].crest_bucket = "ISA"
          /\ credit_out[i].cash_credited = final_credit_lines[i].cash_credited
          /\ credit_out[i].account_number # final_credit_lines[i].account_number

\* a passed run for which reconcile_run returned a house posting that the
\* file does not have
C25_CaseReturnedHousePostingNotWritten ==
    /\ CliPassed
    /\ Len(credit_out) < Len(final_credit_lines)

\* the bucket of a product code by the table of domain/mapping.py
ProductBucket(product_code) ==
    CASE product_code \in {22, 24, 25} -> "ISA"
      [] product_code \in {70, 71} -> "SIPP"
      [] product_code = 97 -> "GIA"
      [] OTHER -> NoBucket

RECURSIVE SharesOfProductBucket(_, _)
SharesOfProductBucket(hs, b) ==
    IF Len(hs) = 0 THEN 0
    ELSE (IF ProductBucket(Head(hs).product_code) = b THEN Head(hs).shares ELSE 0)
         + SharesOfProductBucket(Tail(hs), b)

\* ------------------------------------------------------------------------
\* C30: for holdings that passed validate_internal_holdings, the CLI's
\* _enrich_holdings_from_lines gives every holding a crest_bucket, the
\* bucket of its product code, so the internal share totals reconcile_run
\* sees in a CLI run are the totals by derived bucket.
\* ------------------------------------------------------------------------
C30_EnrichedBucketIsProductBucket ==
    (cli_pc \in {"reconciling", "exited"} /\ error = "") =>
        /\ Len(internal_holdings) = Len(holdings)
        /\ \A i \in DOMAIN internal_holdings :
              /\ internal_holdings[i].crest_bucket \in expected
              /\ internal_holdings[i].crest_bucket
                   = ProductBucket(internal_holdings[i].product_code)
        /\ pc \in {"compare", "decide", "settle", "done"} =>
              \A b \in expected :
                  internal_shares[b] = SharesOfProductBucket(internal_holdings, b)

\* two validated holdings of different buckets, totalled by reconcile_run
C30_Witness ==
    /\ cli_pc = "reconciling"
    /\ pc = "compare"
    /\ Len(internal_holdings) = 2
    /\ internal_holdings[1].crest_bucket = "SIPP"
    /\ internal_holdings[2].crest_bucket = "ISA"
    /\ internal_shares["SIPP"] = 2
    /\ internal_shares["ISA"] = 1
    /\ internal_shares["GIA"] = 0

\* ------------------------------------------------------------------------
\* SpecPar: reconcile_run with the three iterations of the loop of lines
\* 52-108 evaluated either one after the other, as the code does, or as
\* three steps that complete in any order and are merged afterwards; the
\* caller invokes it again and keeps the ended invocation's results
\* ------------------------------------------------------------------------
ParHoldingsInputs ==
    { <<>>,
      <<InternalHolding("11111111", 22, 1, "ISA"), InternalHolding("22222222", 70, 1, "SIPP")>>,
      <<UnbucketedHolding>> }

ParInputs ==
    { <<h, r, l, t>> : h \in ParHoldingsInputs, r \in PureCrestInputs,
                       l \in SeqsUpTo(LinePool, 1), t \in Tolerances }

InitPar ==
    /\ \E first \in ParInputs :
          /\ internal_holdings = first[1]
          /\ crest_rows = first[2]
          /\ client_lines = first[3]
          /\ residual_tolerance = first[4]
    /\ pc = "start"
    /\ crest_by_bucket = <<>>
    /\ internal_shares = <<>>
    /\ internal_cash_pre = <<>>
    /\ bucket_results = <<>>
    /\ breaks = <<>>
    /\ fail_reasons = <<>>
    /\ recon = NoRecon
    /\ final_credit_lines = <<>>
    /\ ret_breaks = <<>>
    /\ raised = ""
    /\ calls = 1
    /\ given = inputs
    /\ remembered = NoCall
    /\ RoundingIdle
    /\ CliIdle
    /\ ParIdle

\* the loop of lines 52-108 as the code runs it
CompareInTurn ==
    /\ evaluated = <<>>
    /\ CompareBucket

EvaluatedBuckets == { evaluated[i].crest_bucket : i \in DOMAIN evaluated }

\* lines 53-108 for one bucket as a step of its own: it reads the bucket's
\* row and totals and the tolerance and keeps its outcome and breaks apart
CompareConcurrently(bucket) ==
    /\ pc = "compare"
    /\ bucket_results = <<>>
    /\ bucket \notin EvaluatedBuckets
    /\ LET br == BucketReconResult(bucket, crest_by_bucket[bucket],
                                   internal_shares[bucket], internal_cash_pre[bucket],
                                   residual_tolerance)
           new == SharesBreaks(br) \o ResidualBreaks(br, residual_tolerance)
       IN  evaluated' = Append(evaluated,
                               [crest_bucket |-> bucket, outcome |-> br, breaks |-> new])
    /\ UNCHANGED <<reconVars, callerVars, roundVars, cliVars>>

\* merging in the order the steps completed
MergeInCompletionOrder(done) == [i \in DOMAIN done |-> done[i].crest_bucket]

\* merging in the order of the loop tuple of line 52
MergeOrder(done) == Buckets

EvaluatedOf(done, bucket) ==
    done[CHOOSE i \in DOMAIN done : done[i].crest_bucket = bucket]

RECURSIVE MergedBreaks(_, _)
MergedBreaks(done, order) ==
    IF Len(order) = 0 THEN <<>>
    ELSE EvaluatedOf(done, Head(order)).breaks \o MergedBreaks(done, Tail(order))

\* the three results put into bucket_results, breaks and fail_reasons
Merge ==
    /\ pc = "compare"
    /\ bucket_results = <<>>
    /\ EvaluatedBuckets = expected
    /\ LET order == MergeOrder(evaluated)
       IN  /\ bucket_results' = [i \in DOMAIN order |-> EvaluatedOf(evaluated, order[i]).outcome]
           /\ breaks' = MergedBreaks(evaluated, order)
           /\ fail_reasons' = FailReasonsOf(MergedBreaks(evaluated, order))
    /\ pc' = "decide"
    /\ UNCHANGED <<inputs, crest_by_bucket, internal_shares, internal_cash_pre,
                   recon, final_credit_lines, ret_breaks, raised>>
    /\ UNCHANGED outside

\* the caller calls again, with the same arguments or with others, and
\* keeps the ended invocation's arguments, results and completion order
Reevaluate ==
    /\ pc \in {"done", "raised"}
    /\ calls < MaxCalls
    /\ \E again \in BOOLEAN, fresh \in ParInputs :
          /\ internal_holdings' = IF again THEN internal_holdings ELSE fresh[1]
          /\ crest_rows' = IF again THEN crest_rows ELSE fresh[2]
          /\ client_lines' = IF again THEN given[3] ELSE fresh[3]
          /\ residual_tolerance' = IF again THEN residual_tolerance ELSE fresh[4]
          /\ given' = IF again THEN given ELSE fresh
    /\ remembered' = [call |-> calls, given |-> given, outcome |-> Outcome,
                      completed |-> MergeInCompletionOrder(evaluated)]
    /\ evaluated' = <<>>
    /\ calls' = calls + 1
    /\ pc' = "start"
    /\ crest_by_bucket' = <<>>
    /\ internal_shares' = <<>>
    /\ internal_cash_pre' = <<>>
    /\ bucket_results' = <<>>
    /\ breaks' = <<>>
    /\ fail_reasons' = <<>>
    /\ recon' = NoRecon
    /\ final_credit_lines' = <<>>
    /\ ret_breaks' = <<>>
    /\ raised' = ""
    /\ UNCHANGED <<roundVars, cliVars>>

NextPar ==
    \/ RaiseMissingBucket
    \/ RaiseKeyError
    \/ Aggregate
    \/ CompareInTurn
    \/ \E bucket \in expected : CompareConcurrently(bucket)
    \/ Merge
    \/ Decide
    \/ Settle
    \/ Reevaluate

SpecPar == InitPar /\ [][NextPar]_vars

\* what of the arguments <<holdings, rows, postings, tolerance>> belongs to
\* a bucket: its authoritative row, its holdings, its postings
BucketData(args, b) ==
    [row |-> CrestByBucket(args[2])[b],
     holdings |-> SelectSeq(args[1], LAMBDA h : h.crest_bucket = b),
     postings |-> SelectSeq(args[3], LAMBDA l : l.crest_bucket = b),
     tolerance |-> args[4]]

BreaksOfBucket(brks, b) == SelectSeq(brks, LAMBDA k : k.crest_bucket = b)

\* the invocation and the one remembered both came to compare the buckets
BothCompared ==
    /\ pc = "done"
    /\ remembered # NoCall
    /\ remembered.outcome.raised = ""

C26_CaseOtherBucketChanged ==
    /\ BothCompared
    /\ remembered.given # given
    /\ BucketData(remembered.given, "ISA") = BucketData(given, "ISA")
    /\ BucketData(remembered.given, "GIA") = BucketData(given, "GIA")
    /\ BucketData(remembered.given, "SIPP") # BucketData(given, "SIPP")
    /\ remembered.outcome.recon.bucket_results[2] # ResultOf("SIPP")
    /\ remembered.outcome.recon.bucket_results[1] = ResultOf("ISA")
    /\ BreaksOfBucket(ret_breaks, "ISA") # <<>>
    /\ BreaksOfBucket(remembered.outcome.breaks, "ISA") = BreaksOfBucket(ret_breaks, "ISA")
    /\ BreaksOfBucket(remembered.outcome.breaks, "SIPP") # BreaksOfBucket(ret_breaks, "SIPP")

\* ------------------------------------------------------------------------
\* Vocabulary of the properties of the outcome of cmd_run
\* ------------------------------------------------------------------------
CliExited == cli_pc = "exited"

\* both input files were read and passed their validation
ValidationSucceeded ==
    /\ validate_internal_holdings(holdings) = ""
    /\ validate_crest_snapshot(crest_rows) = ""

\* reading or validating the inputs failed, the required rate among them
InputsFailed == dividend_per_share = NoRate \/ ~ValidationSucceeded

\* reconcile_run was not entered
ReconciliationNeverRan == pc = "idle"

ReportFiles == {"recon_report.csv", "credit_file.csv", "break_report.csv"}

\* ------------------------------------------------------------------------
\* C22: every CLI run ends in exactly one of three outcomes and returns the
\* matching exit code: 0 with summary status PASS when validation succeeded
\* and all buckets passed; 2 with status FAIL when validation succeeded and
\* reconciliation produced a break; 3 with status INPUT_ERROR when reading
\* or validating the inputs failed before reconciliation ran.
\* ------------------------------------------------------------------------
C22_ThreeOutcomesWithMatchingExitCode ==
    CliExited =>
        /\ exit_code \in {0, 2, 3}
        /\ (exit_code = 0) <=> (status = "PASS")
        /\ (exit_code = 2) <=> (status = "FAIL")
        /\ (exit_code = 3) <=> (status = "INPUT_ERROR")
        /\ (exit_code = 0) <=>
              /\ ~InputsFailed
              /\ pc = "done"
              /\ \A i \in DOMAIN recon.bucket_results : recon.bucket_results[i].pass_bucket
        /\ (exit_code = 2) <=>
              /\ ~InputsFailed
              /\ pc = "done"
              /\ ret_breaks # <<>>
        /\ (exit_code = 3) <=>
              /\ InputsFailed
              /\ ReconciliationNeverRan

\* the same for the runs whose rate is not NaN
C22_CaseRateIsANumber ==
    (CliExited /\ dividend_per_share # NaN) =>
        /\ exit_code \in {0, 2, 3}
        /\ (exit_code = 0) <=> (status = "PASS")
        /\ (exit_code = 2) <=> (status = "FAIL")
        /\ (exit_code = 3) <=> (status = "INPUT_ERROR")
        /\ (exit_code = 0) <=>
              /\ ~InputsFailed
              /\ pc = "done"
              /\ \A i \in DOMAIN recon.bucket_results : recon.bucket_results[i].pass_bucket
        /\ (exit_code = 2) <=>
              /\ ~InputsFailed
              /\ pc = "done"
              /\ ret_breaks # <<>>
        /\ (exit_code = 3) <=>
              /\ InputsFailed
              /\ ReconciliationNeverRan

\* what holds in every run: one of the three codes, with its status
C22_CaseExitCodeMatchesStatus ==
    CliExited =>
        /\ exit_code \in {0, 2, 3}
        /\ (exit_code = 0) <=> (status = "PASS")
        /\ (exit_code = 2) <=> (status = "FAIL")
        /\ (exit_code = 3) <=> (status = "INPUT_ERROR")

\* both files validated, reconcile_run was entered and raised, and the run
\* ended with exit code 3 and status INPUT_ERROR
C22_CaseValidatedRunEndsInInputError ==
    /\ CliExited
    /\ exit_code = 3
    /\ status = "INPUT_ERROR"
    /\ ValidationSucceeded
    /\ dividend_per_share = NaN
    /\ pc = "raised"

\* runs of each of the three kinds
C22_CasePass == CliExited /\ exit_code = 0 /\ Len(holdings) = 2
C22_CaseFail == CliExited /\ exit_code = 2 /\ Len(ret_breaks) >= 2
C22_CaseMissingRate == CliExited /\ exit_code = 3 /\ dividend_per_share = NoRate

\* ------------------------------------------------------------------------
\* C27: in every CLI run the entitlement calculation and reconcile_run are
\* invoked only after validate_internal_holdings and validate_crest_snapshot
\* have both returned normally; when reading or validating either input
\* fails, the run stops at the first failure and writes no
\* recon_report.csv, no credit_file.csv and no break_report.csv.
\* ------------------------------------------------------------------------
C27_ValidationPrecedesProcessing ==
    /\ (client_lines # <<>> \/ pc # "idle") =>
          (ValidationSucceeded /\ dividend_per_share # NoRate)
    /\ (CliExited /\ InputsFailed) => written \cap ReportFiles = {}
    /\ (CliExited /\ dividend_per_share # NoRate /\ ~ValidationSucceeded) =>
          /\ error = (IF validate_internal_holdings(holdings) # ""
                      THEN validate_internal_holdings(holdings)
                      ELSE validate_crest_snapshot(crest_rows))
          /\ client_lines = <<>>
          /\ ReconciliationNeverRan
          /\ written \cap ReportFiles = {}
          /\ exit_code = 3

\* a run stopped by the CREST validation after the holdings validated, and
\* nothing but the summary and the audit log written
C27_Witness ==
    /\ CliExited
    /\ Len(holdings) = 2
    /\ validate_internal_holdings(holdings) = ""
    /\ error = "MISSING_BUCKET"
    /\ written = StartFiles
    /\ run_files = StartFiles

\* a run stopped by the first holding although the CREST rows are invalid too
C27_CaseHoldingsFailFirst ==
    /\ CliExited
    /\ error = "BAD_SHARES"
    /\ validate_crest_snapshot(crest_rows) # ""

\* a run that went on to reconcile_run
C27_CaseReconciled ==
    /\ cli_pc = "reconciling"
    /\ pc = "compare"
    /\ client_lines # <<>>

\* ------------------------------------------------------------------------
\* SpecRuns: cmd_run invoked again and again with the same --outdir, isin,
\* dates and run id, hence into the same run_outdir (lines 219-221)
\* ------------------------------------------------------------------------
MaxRuns == 3

\* the inputs of a further run: valid holdings, an invalid one, none
RunsHoldingsInputs ==
    { <<CsvHolding("11111111", 22, "1111111122", 1), CsvHolding("22222222", 70, "2222222270", 2)>>,
      <<CsvHolding("44444444", 24, "4444444424", 0)>>,
      <<>> }

RunsInputs ==
    { <<hs, rows, rate>> : hs \in RunsHoldingsInputs, rows \in CliCrestInputs,
                           rate \in CliArgRates }

\* lines 210-239 of the next invocation: the files of run_outdir stay, the
\* summary is overwritten with status STARTED
CliRunAgain ==
    /\ cli_pc = "exited"
    /\ runs < MaxRuns
    /\ \E next \in RunsInputs :
          /\ holdings' = next[1]
          /\ crest_rows' = next[2]
          /\ dividend_per_share' = next[3]
    /\ found' = run_files
    /\ run_files' = run_files \cup StartFiles
    /\ written' = StartFiles
    /\ status' = "STARTED"
    /\ runs' = runs + 1
    /\ error' = ""
    /\ exit_code' = -1
    /\ cli_pc' = "read"
    /\ internal_holdings' = <<>>
    /\ client_lines' = <<>>
    /\ residual_tolerance' = 0
    /\ pc' = "idle"
    /\ crest_by_bucket' = <<>>
    /\ internal_shares' = <<>>
    /\ internal_cash_pre' = <<>>
    /\ bucket_results' = <<>>
    /\ breaks' = <<>>
    /\ fail_reasons' = <<>>
    /\ recon' = NoRecon
    /\ final_credit_lines' = <<>>
    /\ ret_breaks' = <<>>
    /\ raised' = ""
    /\ UNCHANGED <<credit_out, callerVars, roundVars, parVars>>

NextRuns ==
    \/ CliMissingRate
    \/ CliInputError
    \/ CliProcessingError
    \/ CliReconcile
    \/ Aggregate
    \/ CompareBucket
    \/ Decide
    \/ Settle
    \/ CliWritePass
    \/ CliWriteFail
    \/ CliRunAgain

SpecRuns == InitCli /\ [][NextRuns]_vars

HasCreditFile == "credit_file.csv" \in run_files
HasBreakReport == "break_report.csv" \in run_files

\* ------------------------------------------------------------------------
\* C24: after any sequence of CLI runs into the same run output directory,
\* a run that ends in INPUT_ERROR (exit code 3) leaves the directory with
\* neither credit_file.csv nor break_report.csv.
\* ------------------------------------------------------------------------
C24_InputErrorLeavesNoCreditOrBreakFile ==
    (CliExited /\ exit_code = 3) => (~HasCreditFile /\ ~HasBreakReport)

\* what holds: a run that ends in INPUT_ERROR creates neither file, so a
\* directory that had neither has neither afterwards
C24_CaseDirectoryWithoutThem ==
    (CliExited /\ exit_code = 3) =>
        /\ written \cap ReportFiles = {}
        /\ run_files = found \cup StartFiles
        /\ found \cap {"credit_file.csv", "break_report.csv"} = {} =>
              (~HasCreditFile /\ ~HasBreakReport)

\* a run whose holdings fail validation, after a passed run: the credit
\* file of the passed run is still there
C24_CaseCreditFileOfEarlierRunStays ==
    /\ CliExited
    /\ exit_code = 3
    /\ runs = 2
    /\ error = "BAD_SHARES"
    /\ HasCreditFile
    /\ Len(credit_out) > 0

\* the same with the break report of a failed run
C24_CaseBreakReportOfEarlierRunStays ==
    /\ CliExited
    /\ exit_code = 3
    /\ error = "MISSING_BUCKET"
    /\ HasBreakReport

\* ------------------------------------------------------------------------
\* C28: for any sequence of CLI runs into one initially empty run output
\* directory, at the end of every run credit_file.csv and break_report.csv
\* do not both exist: a run that passes leaves credit_file.csv present and
\* break_report.csv absent, a run that fails leaves break_report.csv
\* present and credit_file.csv absent, whatever earlier runs left behind.
\* ------------------------------------------------------------------------
C28_CreditFileAndBreakReportExclusive ==
    CliExited =>
        /\ ~(HasCreditFile /\ HasBreakReport)
        /\ exit_code = 0 => (HasCreditFile /\ ~HasBreakReport)
        /\ exit_code = 2 => (HasBreakReport /\ ~HasCreditFile)

\* a third run that passes in a directory where the runs before it left a
\* break report
C28_Witness ==
    /\ CliExited
    /\ runs = 3
    /\ exit_code = 0
    /\ "break_report.csv" \in found
    /\ HasCreditFile
    /\ ~HasBreakReport

\* a run that fails where a passed run left its credit file
C28_CaseFailAfterPass ==
    /\ CliExited
    /\ exit_code = 2
    /\ "credit_file.csv" \in found
    /\ HasBreakReport
    /\ ~HasCreditFile

====
